---- MODULE Spec2Model ----
(***************************************************************************)
(* Iridium: a two-pass assembler producing a bytecode image and the        *)
(* register VM that runs it.  The model follows the Rust sources:          *)
(*   src/src/instruction.rs                 the opcode table               *)
(*   src/src/assembler/assem_instruction.rs the instruction encoder        *)
(*   src/src/assembler/symbols.rs           the symbol table               *)
(*   src/src/assembler/mod.rs               the two-pass assembler         *)
(*   src/src/vm.rs                          the interpreter                *)
(*   src/src/bin/iridium.rs                 the host: assemble, load, run  *)
(*                                                                         *)
(* Conventions.  Option<T> is a sequence of length 0 (None) or 1 (Some).   *)
(* Vec<u8> is a sequence of 0..255; Rust index k is TLA+ index k+1, see At.*)
(* A source text is represented by the Program the parser returns for it.  *)
(***************************************************************************)
EXTENDS Integers, Sequences, FiniteSets, TLC

VARIABLES
    src,      \* the Program parsed from the source text handed to assemble
    asm,      \* the Assembler's fields
    apc,      \* where Assembler::assemble stands
    result,   \* what assemble returned: Option<Result<Vec<u8>, Vec<AssemblerError>>>
    vm,       \* the VM's fields
    vpc,      \* where the VM's run stands
    probe     \* one call of a pure function: its arguments and its return value

vars == <<src, asm, apc, result, vm, vpc, probe>>

None == <<>>
Some(x) == <<x>>
IsSome(o) == Len(o) = 1
Unwrap(o) == o[1]

\* Rust's v[k] on a Vec: zero-based.
At(v, k) == v[k + 1]
\* Rust's v[a..b].
Slice(v, a, b) == SubSeq(v, a + 1, b)

U8 == 256
U16 == 65536

-----------------------------------------------------------------------------
(* instruction.rs: the opcode enumeration, in declaration order.  `code as *)
(* u8` is the zero-based position in this list.                            *)

OpcodeList ==
    << "LOAD", "ADD", "SUB", "MUL", "DIV", "HLT", "JMP", "JMPF", "JMPB",
       "EQ", "NEQ", "GTE", "LTE", "LT", "GT", "JMPE", "NOP", "ALOC", "INC",
       "DEC", "DJMPE", "IGL", "PRTS", "LOADF64", "ADDF64", "SUBF64",
       "MULF64", "DIVF64", "EQF64", "NEQF64", "GTF64", "GTEF64", "LTF64",
       "LTEF64", "SHL", "SHR", "AND", "OR", "XOR", "NOT", "LUI", "CLOOP",
       "LOOP", "LOADM", "SETM", "PUSH", "POP", "CALL", "RET" >>

Opcode == { OpcodeList[k] : k \in 1..Len(OpcodeList) }

\* `*code as u8` (assem_instruction.rs:35): the enum discriminant.
OpcodeAsU8(code) == (CHOOSE k \in 1..Len(OpcodeList) : OpcodeList[k] = code) - 1

\* impl From<u8> for Opcode: the match arms 0..47, in order; `_ => IGL`.
FromU8Arms ==
    << "LOAD", "ADD", "SUB", "MUL", "DIV", "HLT", "JMP", "JMPF", "JMPB",
       "EQ", "NEQ", "GTE", "LTE", "LT", "GT", "JMPE", "NOP", "ALOC", "INC",
       "DEC", "DJMPE", "PRTS", "LOADF64", "ADDF64", "SUBF64", "MULF64",
       "DIVF64", "EQF64", "NEQF64", "GTF64", "GTEF64", "LTF64", "LTEF64",
       "SHL", "SHR", "AND", "OR", "XOR", "NOT", "LUI", "CLOOP", "LOOP",
       "LOADM", "SETM", "PUSH", "POP", "CALL", "RET" >>

OpcodeFromU8(v) == IF v < Len(FromU8Arms) THEN FromU8Arms[v + 1] ELSE "IGL"

-----------------------------------------------------------------------------
(* token.rs: the tokens the parser puts in an instruction's slots.         *)

Op(code) == [kind |-> "Op", code |-> code]
Register(n) == [kind |-> "Register", reg_num |-> n]
IntegerOperand(v) == [kind |-> "IntegerOperand", value |-> v]
StringOperand(s) == [kind |-> "StringOperand", value |-> s]
LabelDeclaration(n) == [kind |-> "LabelDeclaration", name |-> n]
LabelUsage(n) == [kind |-> "LabelUsage", name |-> n]
Directive(n) == [kind |-> "Directive", name |-> n]

(* assem_instruction.rs, AssemblerInstruction::parse: the four forms, first *)
(* match wins.  Operands of forms 3 and 4 are a prefix of the three slots. *)

AssemblerInstruction(opcode, label, directive, o1, o2, o3) ==
    [opcode |-> opcode, label |-> label, directive |-> directive,
     operand1 |-> o1, operand2 |-> o2, operand3 |-> o3]

\* <opcode> <label_usage>
FormLabelUse(code, name) ==
    AssemblerInstruction(Some(Op(code)), Some(LabelUsage(name)), None, None, None, None)
\* <label_decl> <directive> <string>
FormData(name, dir, str) ==
    AssemblerInstruction(None, Some(LabelDeclaration(name)), Some(Directive(dir)),
                         Some(StringOperand(str)), None, None)
\* [label_decl] <opcode> [tok1] [tok2] [tok3]; ops is the sequence of operands
FormOpcode(label, code, ops) ==
    AssemblerInstruction(Some(Op(code)), label, None,
                         IF Len(ops) >= 1 THEN Some(ops[1]) ELSE None,
                         IF Len(ops) >= 2 THEN Some(ops[2]) ELSE None,
                         IF Len(ops) >= 3 THEN Some(ops[3]) ELSE None)
\* <directive> [tok1] [tok2] [tok3]
FormDirective(dir, ops) ==
    AssemblerInstruction(None, None, Some(Directive(dir)),
                         IF Len(ops) >= 1 THEN Some(ops[1]) ELSE None,
                         IF Len(ops) >= 2 THEN Some(ops[2]) ELSE None,
                         IF Len(ops) >= 3 THEN Some(ops[3]) ELSE None)

contain_operands(i) == IsSome(i.operand1) \/ IsSome(i.operand2) \/ IsSome(i.operand3)
is_label_declaration(i) == IsSome(i.label) /\ Unwrap(i.label).kind = "LabelDeclaration"
is_label_usage(i) == IsSome(i.label) /\ Unwrap(i.label).kind = "LabelUsage"
is_directive(i) == IsSome(i.directive)
is_opcode(i) == IsSome(i.opcode)

get_label_declaration_name(i) ==
    IF is_label_declaration(i) THEN Some(Unwrap(i.label).name) ELSE None
get_directive_name(i) ==
    IF IsSome(i.directive) /\ Unwrap(i.directive).kind = "Directive"
    THEN Some(Unwrap(i.directive).name) ELSE None
get_string_constant(i) ==
    IF IsSome(i.operand1) /\ Unwrap(i.operand1).kind = "StringOperand"
    THEN Some(Unwrap(i.operand1).value) ELSE None

-----------------------------------------------------------------------------
(* symbols.rs: SymbolTable is a Vec<Symbol>; a Symbol is a name and an      *)
(* Option<u32> offset (its type is always Label).                          *)

Symbol(name) == [name |-> name, offset |-> None]

add_symbol(symbols, s) == Append(symbols, s)

contain_symbol(symbols, name) == \E k \in 1..Len(symbols) : symbols[k].name = name

\* iter().find: the first symbol of that name.
FindSymbol(symbols, name) ==
    LET hits == { k \in 1..Len(symbols) : symbols[k].name = name }
    IN  IF hits = {} THEN 0 ELSE CHOOSE k \in hits : \A j \in hits : k <= j

symbol_value(symbols, name) ==
    LET k == FindSymbol(symbols, name)
    IN  IF k = 0 THEN None ELSE symbols[k].offset

set_symbol_offset(symbols, name, offset) ==
    LET k == FindSymbol(symbols, name)
    IN  IF k = 0 THEN symbols
        ELSE [symbols EXCEPT ![k].offset = Some(offset)]

-----------------------------------------------------------------------------
(* assem_instruction.rs: the encoder.                                      *)

\* extract_operand: the bytes one operand token appends.
\* An encoder that emits the low byte first.
extract_operand_le(t, symbols) ==
    CASE t.kind = "Register" -> << t.reg_num >>
      [] t.kind = "IntegerOperand" ->
            LET converted == t.value % U16
            IN  << converted % U8, (converted \div U8) % U8 >>
      [] OTHER -> << >>

extract_operand(t, symbols) ==
    CASE t.kind = "Register" -> << t.reg_num >>
      [] t.kind = "IntegerOperand" ->
            \* `*value as i16`, then `converted >> 8` and `converted`, each `as u8`
            LET converted == t.value % U16
            IN  << (converted \div U8) % U8, converted % U8 >>
      [] t.kind = "LabelUsage" ->
            LET value == symbol_value(symbols, t.name)
            IN  IF IsSome(value)
                THEN << (Unwrap(value) \div U8) % U8, Unwrap(value) % U8 >>
                ELSE << >>
      [] OTHER -> << >>   \* process::exit(1): no parser form puts another token here

\* `while results.len() < 4 { results.push(0) }`
RECURSIVE PadTo4(_)
PadTo4(results) == IF Len(results) < 4 THEN PadTo4(Append(results, 0)) ELSE results

\* to_bytes: the opcode byte, the bytes of the operands present, zero padding.
to_bytes(i, symbols) ==
    LET opnds == i.operand1 \o i.operand2 \o i.operand3   \* .flatten()
        ext[k \in 0..Len(opnds)] ==
            IF k = 0 THEN << OpcodeAsU8(Unwrap(i.opcode).code) >>
            ELSE ext[k - 1] \o extract_operand(opnds[k], symbols)
    IN  PadTo4(ext[Len(opnds)])

-----------------------------------------------------------------------------
(* assembler/mod.rs: the two-pass assembler.                               *)

PIE_HEADER_PREFIX == << 45, 50, 49, 45 >>
PIE_HEADER_LENGTH == 64

\* Assembler::new
AssemblerNew ==
    [phase |-> "First", symbols |-> << >>, ro |-> << >>, bytecode |-> << >>,
     ro_offset |-> 0, sections |-> << >>, curr_section |-> None,
     curr_instruction |-> 0, errors |-> << >>]

InsufficientSections == [kind |-> "InsufficientSections"]
ParsingError == [kind |-> "ParsingError"]
NoSegmentDeclarationFound(n) == [kind |-> "NoSegmentDeclarationFound", at |-> n]
SymbolAlreadyDeclared == [kind |-> "SymbolAlreadyDeclared"]
UnknownDirectiveFound(name) == [kind |-> "UnknownDirectiveFound", name |-> name]

\* impl From<&str> for AssemblerSection
AssemblerSectionFrom(name) ==
    CASE name = "data" -> "Data"
      [] name = "code" -> "Code"
      [] OTHER -> "Unknown"

\* A section header that is listed but does not become the current section.
process_section_header_listed(a, header_name) ==
    LET section == AssemblerSectionFrom(header_name)
    IN  IF section = "Unknown" THEN a
        ELSE [a EXCEPT !.sections = Append(@, section)]

process_section_header(a, header_name) ==
    LET section == AssemblerSectionFrom(header_name)
    IN  IF section = "Unknown" THEN a
        ELSE [a EXCEPT !.sections = Append(@, section),
                       !.curr_section = Some(section)]

handle_asciiz(a, i) ==
    IF a.phase # "First" THEN a
    ELSE LET str == get_string_constant(i)
             label_name == get_label_declaration_name(i)
         IN  IF ~IsSome(str) THEN a
             ELSE [a EXCEPT
                     !.symbols = IF IsSome(label_name)
                                 THEN set_symbol_offset(@, Unwrap(label_name), a.ro_offset)
                                 ELSE @,
                     \* the string's bytes, then the terminating zero
                     !.ro = @ \o Unwrap(str) \o << 0 >>,
                     !.ro_offset = @ + Len(Unwrap(str)) + 1]

\* `"integer" => todo!()`: the directive the assembler panics on.
DirectivePanics(i) ==
    /\ is_directive(i)
    /\ contain_operands(i)
    /\ Unwrap(get_directive_name(i)) = "integer"

process_directive(a, i) ==
    LET directive_name == Unwrap(get_directive_name(i))
    IN  IF contain_operands(i)
        THEN CASE directive_name = "asciiz" -> handle_asciiz(a, i)
               [] directive_name = "integer" -> a   \* todo!(), see DirectivePanics
               [] OTHER -> [a EXCEPT !.errors =
                                Append(@, UnknownDirectiveFound(directive_name))]
        ELSE process_section_header(a, directive_name)

\* A declaration of a name already declared, dropped without an error.
process_label_declaration_silent(a, i) ==
    LET label_name == Unwrap(get_label_declaration_name(i))
    IN  IF contain_symbol(a.symbols, label_name) THEN a
        ELSE [a EXCEPT !.symbols = add_symbol(@, Symbol(label_name))]

process_label_declaration(a, i) ==
    LET label_name == Unwrap(get_label_declaration_name(i))
    IN  IF contain_symbol(a.symbols, label_name)
        THEN [a EXCEPT !.errors = Append(@, SymbolAlreadyDeclared)]
        ELSE [a EXCEPT !.symbols = add_symbol(@, Symbol(label_name))]

\* One iteration of process_first_phase's loop, on instruction i.
FirstPhaseInstruction(a, i) ==
    LET a1 == IF is_directive(i) THEN process_directive(a, i) ELSE a
        a2 == IF ~IsSome(a1.curr_section)
              THEN [a1 EXCEPT !.errors =
                        Append(@, NoSegmentDeclarationFound(a1.curr_instruction))]
              ELSE IF is_label_declaration(i) THEN process_label_declaration(a1, i)
              ELSE a1
    IN  [a2 EXCEPT !.curr_instruction = @ + 1]

\* One iteration of process_second_phase's loop: the bytes appended to the
\* local `program`, and the assembler after it.
SecondPhaseBytes(a, i) == IF is_opcode(i) THEN to_bytes(i, a.symbols) ELSE << >>

SecondPhaseInstruction(a, i) ==
    LET a1 == IF is_directive(i) THEN process_directive(a, i) ELSE a
    IN  [a1 EXCEPT !.curr_instruction = @ + 1]

\* (n as u32).to_le_bytes(); n stays far below 2^31 here.
LE32Bytes(n) ==
    << n % U8, (n \div U8) % U8, (n \div U16) % U8, (n \div (U16 * U8)) % U8 >>

\* The header with the length written high byte first.
write_pie_header_be(a) ==
    [k \in 1..PIE_HEADER_LENGTH |->
        IF k <= Len(PIE_HEADER_PREFIX) THEN PIE_HEADER_PREFIX[k]
        ELSE IF k <= Len(PIE_HEADER_PREFIX) + 4
             THEN LE32Bytes(Len(a.ro))[5 - (k - Len(PIE_HEADER_PREFIX))]
        ELSE 0]

write_pie_header(a) ==
    [k \in 1..PIE_HEADER_LENGTH |->
        IF k <= Len(PIE_HEADER_PREFIX) THEN PIE_HEADER_PREFIX[k]
        ELSE IF k <= Len(PIE_HEADER_PREFIX) + 4
             THEN LE32Bytes(Len(a.ro))[k - Len(PIE_HEADER_PREFIX)]
        ELSE 0]

AssembleOk(image) == [ok |-> TRUE, image |-> image, errors |-> << >>]
AssembleErr(errors) == [ok |-> FALSE, image |-> << >>, errors |-> errors]

-----------------------------------------------------------------------------
(* vm.rs: machine arithmetic.  TLC's integers are 32 bits wide, so nothing  *)
(* here forms a value outside MinI32..MaxI32.                              *)

MaxI32 == 2147483647
MinI32 == -MaxI32 - 1

\* a + b on i32: the wrapped sum, and whether the exact sum left the range.
AddI32(a, b) ==
    IF a >= 0 /\ b > MaxI32 - a
        THEN [val |-> (a + MinI32) + (b + MinI32), overflow |-> TRUE]
    ELSE IF a < 0 /\ b < MinI32 - a
        THEN [val |-> (a - MinI32) + (b - MinI32), overflow |-> TRUE]
    ELSE [val |-> a + b, overflow |-> FALSE]

\* a - b on i32.
SubI32(a, b) ==
    IF b < 0 /\ a > MaxI32 + b
        THEN [val |-> (a + MinI32) - (b - MinI32), overflow |-> TRUE]
    ELSE IF b > 0 /\ a < MinI32 + b
        THEN [val |-> (a - MinI32) - (b + MinI32), overflow |-> TRUE]
    ELSE [val |-> a - b, overflow |-> FALSE]

Abs(x) == IF x < 0 THEN -x ELSE x

\* Rust's `/` and `%` on i32 (b # 0, not MinI32 / -1): truncation toward zero,
\* the remainder has the dividend's sign.  a = MinI32 has no absolute value
\* in range; its quotient is taken from a + |b|.
RECURSIVE DivTrunc(_, _)
DivTrunc(a, b) ==
    IF a = MinI32
    THEN IF b > 0 THEN DivTrunc(a + b, b) - 1 ELSE DivTrunc(a - b, b) + 1
    ELSE IF b = MinI32 THEN 0
    ELSE LET q == Abs(a) \div Abs(b)
         IN  IF (a < 0) = (b < 0) THEN q ELSE -q
RemTrunc(a, b) ==
    IF b = MinI32 THEN (IF a = MinI32 THEN 0 ELSE a)
    ELSE a - DivTrunc(a, b) * b

\* a * b on i32: the low 32 bits of the product, from the 8-bit limbs of
\* the two words (so that no intermediate value leaves the 32-bit range),
\* read as two's complement; the exact product left the range when dividing
\* the wrapped product by a does not give b back.
Limb(x, k) == CASE k = 0 -> x % U8
                [] k = 1 -> (x \div U8) % U8
                [] k = 2 -> (x \div U16) % U8
                [] k = 3 -> ((x \div U16) \div U8) % U8
MulI32(a, b) ==
    LET c0 == Limb(a, 0) * Limb(b, 0)
        c1 == Limb(a, 0) * Limb(b, 1) + Limb(a, 1) * Limb(b, 0)
        c2 == Limb(a, 0) * Limb(b, 2) + Limb(a, 1) * Limb(b, 1) + Limb(a, 2) * Limb(b, 0)
        c3 == Limb(a, 0) * Limb(b, 3) + Limb(a, 1) * Limb(b, 2)
                + Limb(a, 2) * Limb(b, 1) + Limb(a, 3) * Limb(b, 0)
        t == c0 + (c1 % U8) * U8
        lo == t % U16
        hi == ((t \div U16) + (c1 \div U8) + c2 + (c3 % U8) * U8) % U16
        val == (IF hi >= U16 \div 2 THEN hi - U16 ELSE hi) * U16 + lo
    IN  [val |-> val,
         overflow |-> /\ a # 0
                      /\ \/ (a = -1 /\ b = MinI32)
                         \/ (a # -1 /\ DivTrunc(val, a) # b)]

\* `x as u32` of an i32, as the two 16-bit halves of the word (a u32 at or
\* above 2^31 is no TLC integer).
AsU32(x) == [hi |-> (x \div U16) % U16, lo |-> x % U16]

\* wrapping_shl / wrapping_shr on i32: the amount is taken modulo 32.
RECURSIVE Shl(_, _)
Shl(x, k) == IF k = 0 THEN x ELSE Shl(AddI32(x, x).val, k - 1)
RECURSIVE Shr(_, _)
Shr(x, k) == IF k = 0 THEN x ELSE Shr(x \div 2, k - 1)
\* A shift that does not reduce its amount.
unbounded_shl(x, n) == Shl(x, n)
wrapping_shl(x, n) == Shl(x, n % 32)
wrapping_shr(x, n) == Shr(x, n % 32)

(* f64 values.  A finite value is the exact fraction n/d in lowest terms   *)
(* (d > 0): the model holds only values whose arithmetic is exact in f64   *)
(* small integers and their quotients; rounding is not modelled.           *)

RECURSIVE Gcd(_, _)
Gcd(a, b) == IF b = 0 THEN a ELSE Gcd(b, a % b)
Fin(n, d) ==
    LET g == Gcd(Abs(n), Abs(d))
        sg == IF d < 0 THEN -1 ELSE 1
    IN  [k |-> "fin", n |-> sg * (n \div g), d |-> sg * (d \div g)]
NaN == [k |-> "nan", n |-> 0, d |-> 1]
Inf(sign) == [k |-> "inf", n |-> sign, d |-> 1]
F64FromU16(x) == Fin(x, 1)
Sign(x) == IF x.n > 0 THEN 1 ELSE IF x.n < 0 THEN -1 ELSE 0

F64Neg(x) == [x EXCEPT !.n = -x.n]
F64Add(x, y) ==
    CASE x.k = "nan" \/ y.k = "nan" -> NaN
      [] x.k = "inf" /\ y.k = "inf" -> IF x.n = y.n THEN x ELSE NaN
      [] x.k = "inf" -> x
      [] y.k = "inf" -> y
      [] OTHER -> Fin(x.n * y.d + y.n * x.d, x.d * y.d)
F64Sub(x, y) == F64Add(x, F64Neg(y))
F64Mul(x, y) ==
    CASE x.k = "nan" \/ y.k = "nan" -> NaN
      [] x.k = "inf" \/ y.k = "inf" ->
            IF Sign(x) * Sign(y) = 0 THEN NaN ELSE Inf(Sign(x) * Sign(y))
      [] OTHER -> Fin(x.n * y.n, x.d * y.d)
F64Div(x, y) ==
    CASE x.k = "nan" \/ y.k = "nan" -> NaN
      [] x.k = "inf" /\ y.k = "inf" -> NaN
      [] x.k = "inf" -> Inf(IF Sign(y) < 0 THEN -x.n ELSE x.n)
      [] y.k = "inf" -> Fin(0, 1)
      [] y.n = 0 -> IF x.n = 0 THEN NaN ELSE Inf(Sign(x))
      [] OTHER -> Fin(x.n * y.d, x.d * y.n)
\* x < y; false when either is NaN.
F64Lt(x, y) ==
    CASE x.k = "nan" \/ y.k = "nan" -> FALSE
      [] x.k = "inf" /\ y.k = "inf" -> x.n < y.n
      [] x.k = "inf" -> x.n < 0
      [] y.k = "inf" -> y.n > 0
      [] OTHER -> x.n * y.d < y.n * x.d
F64Eq(x, y) == x.k # "nan" /\ y.k # "nan" /\ x = y
\* (x - y).abs() < EPSILON and (x - y).abs() > EPSILON: two distinct values
\* of the model are further apart than EPSILON.
F64AbsDiffBelowEps(x, y) == LET z == F64Sub(x, y) IN z.k = "fin" /\ z.n = 0
F64AbsDiffAboveEps(x, y) == LET z == F64Sub(x, y) IN z.k = "inf" \/ (z.k = "fin" /\ z.n # 0)

-----------------------------------------------------------------------------
(* vm.rs: the VM.  `stdout` is what the VM has printed; the pc is a usize, *)
(* and a negative pc stands for the usize 2^64 + pc (a negative i32 cast   *)
(* `as usize`), which lies beyond every program.                           *)

RegisterCount == 32
Registers == 0..(RegisterCount - 1)

\* The ids Uuid::new_v4() may give a VM.
Uuids == { "uuid-1", "uuid-2" }

\* A clone with a connection manager of its own.
CloneDetached(v) == [v EXCEPT !.conn_manager = "detached"]

VMNew(id) ==
    [registers |-> [r \in Registers |-> 0],
     float_registers |-> [r \in Registers |-> Fin(0, 1)],
     pc |-> 65, program |-> << >>, remainder |-> AsU32(0),
     equal_flag |-> FALSE, heap |-> << >>, ro_data |-> << >>,
     id |-> id, events |-> << >>, stdout |-> << >>,
     conn_manager |-> id]  \* the Arc that VM::new allocates, named after the VM

\* #[derive(Clone)]: every field cloned; the clone of an Arc is the same Arc.
Clone(v) == v

add_bytes(v, b) == [v EXCEPT !.program = @ \o b]

\* program[0..4] == PIE_HEADER_PREFIX; the slice panics on a shorter program.
verify_header(v) == Slice(v.program, 0, 4) = PIE_HEADER_PREFIX

\* read_u32::<LittleEndian> of program[4..8]; the value stays below 2^31 here.
get_starting_offset(v) ==
    At(v.program, 4) + U8 * At(v.program, 5) + U16 * At(v.program, 6)
        + U16 * U8 * At(v.program, 7)

Msg(text) == [kind |-> "msg", bytes |-> << >>, text |-> text]
Prts(bytes) == [kind |-> "prts", bytes |-> bytes, text |-> ""]
Say(v, item) == [v EXCEPT !.stdout = Append(@, item)]

\* The outcomes of execute_instruction: it returned None (the loop of run
\* goes on), it returned Some(1), or it panicked.
Cont(v) == [vm |-> v, is_done |-> None, panic |-> ""]
\* An outcome that lets the loop go on where it should end.
Resume(v) == [vm |-> v, is_done |-> None, panic |-> ""]
Done(v) == [vm |-> v, is_done |-> Some(1), panic |-> ""]
Fault(v, why) == [vm |-> v, is_done |-> None, panic |-> why]

PcOutside(v) == v.pc < 0 \/ v.pc >= Len(v.program)
\* The opcode byte at the pc, decoded.
decode_opcode(v) == OpcodeFromU8(At(v.program, v.pc))
\* With the opcode byte at v.pc: the operand bytes the program still holds,
\* the k-th of them, and the VM with the pc moved k bytes on.
Avail(v) == Len(v.program) - v.pc - 1
B(v, k) == At(v.program, v.pc + k)
Adv(v, k) == [v EXCEPT !.pc = v.pc + k]
\* next_16_bits on operand bytes k and k+1
B16(v, k) == U8 * B(v, k) + B(v, k + 1)

\* The first n operand bytes are there and each names a register.
RegsOk(v, n) == \A k \in 1..n : Avail(v) >= k /\ B(v, k) < RegisterCount
\* The panic that ends the reading of n register operands: the k-th byte is
\* past the end of the program, or `registers[..]` is indexed out of range.
RegFault(v, n) ==
    LET bad == { k \in 1..n : Avail(v) < k \/ B(v, k) >= RegisterCount }
        k == CHOOSE k \in bad : \A j \in bad : k <= j
    IN  IF Avail(v) < k THEN Fault(Adv(v, k), "program index")
        ELSE Fault(Adv(v, k + 1), "register index")

\* The outcomes of an i32 operation whose overflow panics in a build with
\* overflow checks and wraps in one without.
OverflowOr(res, at, ok) ==
    { ok } \cup (IF res.overflow THEN { Fault(at, "arithmetic overflow") } ELSE {})

\* ADD, SUB, MUL: registers[b3] = registers[b1] op registers[b2]
IntOp(op, a, b) ==
    CASE op = "ADD" -> AddI32(a, b)
      [] op = "SUB" -> SubI32(a, b)
      [] op = "MUL" -> MulI32(a, b)

\* A store into the register named by the second operand byte.
StoreSecond(v, val) ==
    IF Avail(v) < 3 THEN Fault(Adv(v, 3), "program index")
    ELSE IF B(v, 3) >= RegisterCount THEN Fault(Adv(v, 4), "register index")
    ELSE Cont([Adv(v, 4) EXCEPT !.registers[B(v, 2)] = val])

\* The store into the register named by the third operand byte.
StoreThird(v, val) ==
    IF Avail(v) < 3 THEN Fault(Adv(v, 3), "program index")
    ELSE IF B(v, 3) >= RegisterCount THEN Fault(Adv(v, 4), "register index")
    ELSE Cont([Adv(v, 4) EXCEPT !.registers[B(v, 3)] = val])

ExecArith(v, op) ==
    IF ~RegsOk(v, 2) THEN { RegFault(v, 2) }
    ELSE LET res == IntOp(op, v.registers[B(v, 1)], v.registers[B(v, 2)])
         IN  OverflowOr(res, Adv(v, 3), StoreThird(v, res.val))

ExecDiv(v) ==
    IF ~RegsOk(v, 2) THEN { RegFault(v, 2) }
    ELSE LET register1 == v.registers[B(v, 1)]
             register2 == v.registers[B(v, 2)]
         IN  IF register2 = 0 THEN { Fault(Adv(v, 3), "divide by zero") }
             ELSE IF register1 = MinI32 /\ register2 = -1
                  THEN { Fault(Adv(v, 3), "arithmetic overflow") }
             ELSE LET st == StoreThird(v, DivTrunc(register1, register2))
                  IN  IF st.panic # "" THEN { st }
                      ELSE { Cont([st.vm EXCEPT !.remainder =
                                        AsU32(RemTrunc(register1, register2))]) }

\* JMP, and JMPE with the flag set: pc = registers[b1] as usize
ExecJmp(v) ==
    IF ~RegsOk(v, 1) THEN { RegFault(v, 1) }
    ELSE { Cont([v EXCEPT !.pc = v.registers[B(v, 1)]]) }

\* JMPF: pc += target as usize, the pc being past the operand byte.  The sum
\* of a pc and a negative target's usize leaves the usize range.
ExecJmpf(v) ==
    IF ~RegsOk(v, 1) THEN { RegFault(v, 1) }
    ELSE LET target == v.registers[B(v, 1)]
             sum == AddI32(v.pc + 2, target)
             to == IF sum.overflow THEN MaxI32 ELSE sum.val  \* beyond the program
         IN  { Cont([v EXCEPT !.pc = to]) }
             \cup (IF target < 0 /\ to >= 0
                   THEN { Fault(Adv(v, 2), "arithmetic overflow") } ELSE {})

\* JMPB: pc -= target as usize.
ExecJmpb(v) ==
    IF ~RegsOk(v, 1) THEN { RegFault(v, 1) }
    ELSE LET target == v.registers[B(v, 1)]
             diff == SubI32(v.pc + 2, target)
             to == IF diff.overflow THEN MaxI32 ELSE diff.val
         IN  { Cont([v EXCEPT !.pc = to]) }
             \cup (IF target < 0 \/ to < 0
                   THEN { Fault(Adv(v, 2), "arithmetic overflow") } ELSE {})

IntCmp(op, a, b) ==
    CASE op = "EQ" -> a = b
      [] op = "NEQ" -> a # b
      [] op = "GT" -> a > b
      [] op = "GTE" -> a >= b
      [] op = "LT" -> a < b
      [] op = "LTE" -> a <= b

\* The comparisons: the flag is written, then the third byte is read.
SetFlagThenSkip(v, flag) ==
    IF Avail(v) < 3
    THEN Fault([Adv(v, 3) EXCEPT !.equal_flag = flag], "program index")
    ELSE Cont([Adv(v, 4) EXCEPT !.equal_flag = flag])

ExecCmp(v, op) ==
    IF ~RegsOk(v, 2) THEN { RegFault(v, 2) }
    ELSE { SetFlagThenSkip(v, IntCmp(op, v.registers[B(v, 1)], v.registers[B(v, 2)])) }

\* LOAD: the register byte, the 16-bit number, then the store.
ExecLoad(v) ==
    IF Avail(v) < 1 THEN { Fault(Adv(v, 1), "program index") }
    ELSE IF Avail(v) < 3 THEN { Fault(Adv(v, 2), "program index") }
    ELSE IF B(v, 1) >= RegisterCount THEN { Fault(Adv(v, 4), "register index") }
    ELSE { Cont([Adv(v, 4) EXCEPT !.registers[B(v, 1)] = B16(v, 2)]) }

\* INC, DEC: registers[b1] += 1 or -= 1, then two bytes are read.
ExecIncDec(v, op) ==
    IF ~RegsOk(v, 1) THEN { RegFault(v, 1) }
    ELSE LET res == IF op = "INC" THEN AddI32(v.registers[B(v, 1)], 1)
                    ELSE SubI32(v.registers[B(v, 1)], 1)
             w == [v EXCEPT !.registers[B(v, 1)] = res.val]
             ok == IF Avail(v) < 3
                   THEN Fault(Adv(w, IF Avail(v) < 2 THEN 2 ELSE 3), "program index")
                   ELSE Cont(Adv(w, 4))
         IN  OverflowOr(res, Adv(v, 2), ok)

\* A resize that fills with ones.
ResizeOnes(heap, new_len) ==
    IF new_len <= Len(heap) THEN SubSeq(heap, 1, new_len)
    ELSE heap \o [k \in 1..(new_len - Len(heap)) |-> 1]

\* Vec::resize(new_len, 0)
Resize(heap, new_len) ==
    IF new_len <= Len(heap) THEN SubSeq(heap, 1, new_len)
    ELSE heap \o [k \in 1..(new_len - Len(heap)) |-> 0]

\* ALOC: new_end = heap.len() as i32 + registers[b1]; heap.resize(new_end as
\* usize, 0).  A negative new_end is a usize beyond isize::MAX, which resize
\* refuses (capacity overflow).
ExecAloc(v) ==
    IF ~RegsOk(v, 1) THEN { RegFault(v, 1) }
    ELSE LET bytes == v.registers[B(v, 1)]
             new_end == AddI32(Len(v.heap), bytes)
         IN  IF new_end.overflow
             THEN { Fault(Adv(v, 2), "arithmetic overflow"),
                    Fault(Adv(v, 2), "capacity overflow") }
             ELSE IF new_end.val < 0 THEN { Fault(Adv(v, 2), "capacity overflow") }
             ELSE { Cont([Adv(v, 2) EXCEPT !.heap = Resize(@, new_end.val)]) }

\* A JMPE that consumes the flag when it jumps.
ExecJmpeClearing(v) ==
    IF v.equal_flag
    THEN { [o EXCEPT !.vm.equal_flag = FALSE] : o \in ExecJmp(v) }
    ELSE { Cont(Adv(v, 1)) }

\* A JMPE that reads its operand byte when it does not jump.
ExecJmpeSkipping(v) == IF v.equal_flag THEN ExecJmp(v) ELSE { Cont(Adv(v, 2)) }

\* JMPE: the jump of JMP when the flag is set; nothing is read otherwise.
ExecJmpe(v) == IF v.equal_flag THEN ExecJmp(v) ELSE { Cont(Adv(v, 1)) }

\* from_utf8 of the model's strings: ASCII bytes.
IsUtf8(bytes) == \A k \in 1..Len(bytes) : bytes[k] < 128

\* PRTS: starting_offset = next_16_bits(); ending_offset is the position, in
\* ro_data[starting_offset..], of the first byte that is not zero; the bytes
\* ro_data[starting_offset..ending_offset] are printed.
ExecPrts(v) ==
    IF Avail(v) < 2 THEN { Fault(Adv(v, 1), "program index") }
    ELSE LET starting_offset == B16(v, 1)
             w == Adv(v, 3)
             rest == Slice(v.ro_data, starting_offset, Len(v.ro_data))
             nz == { k \in 1..Len(rest) : rest[k] # 0 }
             ending_offset == (CHOOSE k \in nz : \A j \in nz : k <= j) - 1
         IN  IF starting_offset > Len(v.ro_data) THEN { Fault(w, "slice index") }
             ELSE IF nz = {} THEN { Fault(w, "unwrap on None") }
             ELSE IF starting_offset > ending_offset THEN { Fault(w, "slice index") }
             ELSE LET bytes == Slice(v.ro_data, starting_offset, ending_offset)
                  IN  IF IsUtf8(bytes) THEN { Cont(Say(w, Prts(bytes))) }
                      ELSE { Cont(Say(w, Msg("Error decoding string for prts instruction"))) }

ExecLoadF64(v) ==
    IF Avail(v) < 1 THEN { Fault(Adv(v, 1), "program index") }
    ELSE IF Avail(v) < 3 THEN { Fault(Adv(v, 2), "program index") }
    ELSE IF B(v, 1) >= RegisterCount THEN { Fault(Adv(v, 4), "register index") }
    ELSE { Cont([Adv(v, 4) EXCEPT !.float_registers[B(v, 1)] = F64FromU16(B16(v, 2))]) }

FloatOp(op, x, y) ==
    CASE op = "ADDF64" -> F64Add(x, y)
      [] op = "SUBF64" -> F64Sub(x, y)
      [] op = "MULF64" -> F64Mul(x, y)
      [] op = "DIVF64" -> F64Div(x, y)

ExecFloatArith(v, op) ==
    IF ~RegsOk(v, 2) THEN { RegFault(v, 2) }
    ELSE LET val == FloatOp(op, v.float_registers[B(v, 1)], v.float_registers[B(v, 2)])
         IN  IF Avail(v) < 3 THEN { Fault(Adv(v, 3), "program index") }
             ELSE IF B(v, 3) >= RegisterCount THEN { Fault(Adv(v, 4), "register index") }
             ELSE { Cont([Adv(v, 4) EXCEPT !.float_registers[B(v, 3)] = val]) }

FloatCmp(op, x, y) ==
    CASE op = "EQF64" -> F64AbsDiffBelowEps(x, y)
      [] op = "NEQF64" -> F64AbsDiffAboveEps(x, y)
      [] op = "GTF64" -> F64Lt(y, x)
      [] op = "GTEF64" -> F64Lt(y, x) \/ F64Eq(x, y)
      [] op = "LTF64" -> F64Lt(x, y)
      [] op = "LTEF64" -> F64Lt(x, y) \/ F64Eq(x, y)

ExecFloatCmp(v, op) ==
    IF ~RegsOk(v, 2) THEN { RegFault(v, 2) }
    ELSE { SetFlagThenSkip(v, FloatCmp(op, v.float_registers[B(v, 1)],
                                            v.float_registers[B(v, 2)])) }

\* A NOP that reads nothing and leaves the pc on itself.
ExecNopStuck(v) == { Cont(v) }

\* NOP: three bytes are read.
ExecNop(v) ==
    IF Avail(v) < 3 THEN { Fault(Adv(v, Avail(v) + 1), "program index") }
    ELSE { Cont(Adv(v, 4)) }

\* SHL, SHR: registers[b1] shifted by b2 bits, by 16 when b2 is 0.
ExecShift(v, op) ==
    IF Avail(v) < 2 THEN { Fault(Adv(v, Avail(v) + 1), "program index") }
    ELSE IF B(v, 1) >= RegisterCount THEN { Fault(Adv(v, 3), "register index") }
    ELSE LET num_bits == IF B(v, 2) = 0 THEN 16 ELSE B(v, 2)
             old == v.registers[B(v, 1)]
             val == IF op = "SHL" THEN wrapping_shl(old, num_bits)
                    ELSE wrapping_shr(old, num_bits)
             w == [v EXCEPT !.registers[B(v, 1)] = val]
         IN  IF Avail(v) < 3 THEN { Fault(Adv(w, 3), "program index") }
             ELSE { Cont(Adv(w, 4)) }

ArithOps == { "ADD", "SUB", "MUL" }
CmpOps == { "EQ", "NEQ", "GT", "GTE", "LT", "LTE" }
FloatArithOps == { "ADDF64", "SUBF64", "MULF64", "DIVF64" }
FloatCmpOps == { "EQF64", "NEQF64", "GTF64", "GTEF64", "LTF64", "LTEF64" }

\* execute_instruction: the set of its outcomes on VM v.
execute_instruction(v) ==
    IF PcOutside(v) THEN { Done(v) }
    ELSE LET op == decode_opcode(v)
         IN  CASE op = "HLT" -> { Cont(Say(Adv(v, 1), Msg("HLT encountered"))) }
               [] op = "LOAD" -> ExecLoad(v)
               [] op \in ArithOps -> ExecArith(v, op)
               [] op = "DIV" -> ExecDiv(v)
               [] op = "JMP" -> ExecJmp(v)
               [] op = "JMPF" -> ExecJmpf(v)
               [] op = "JMPB" -> ExecJmpb(v)
               [] op \in CmpOps -> ExecCmp(v, op)
               [] op = "ALOC" -> ExecAloc(v)
               [] op \in { "INC", "DEC" } -> ExecIncDec(v, op)
               [] op = "JMPE" -> ExecJmpe(v)
               [] op = "PRTS" -> ExecPrts(v)
               [] op = "LOADF64" -> ExecLoadF64(v)
               [] op \in FloatArithOps -> ExecFloatArith(v, op)
               [] op \in FloatCmpOps -> ExecFloatCmp(v, op)
               [] op = "NOP" -> ExecNop(v)
               [] op \in { "SHL", "SHR" } -> ExecShift(v, op)
               [] OTHER ->
                    { Done(Say(Adv(v, 1), Msg("Unrecognized opcode found! Terminating!"))) }

\* A VMEvent: its VMEventType and app_id (its timestamp is not modelled).
VMEvent(event, app_id) == [event |-> event, app_id |-> app_id]

-----------------------------------------------------------------------------
(* The sources.  InstrSet is a small alphabet of instructions, as the      *)
(* parser returns them; Programs are all the instruction sequences over it *)
(* up to MaxInstr long; the empty sequence stands for a text that          *)
(* Program::parse rejects (many1 needs one instruction).  Scenarios are    *)
(* the programs of the repository's tests.                                 *)

MaxInstr == 4

Hi == << 72, 105 >>
Hello == << 72, 101, 108, 108, 111 >>

DataHeader == FormDirective("data", << >>)                      \* .data
CodeHeader == FormDirective("code", << >>)                      \* .code
HelloHi == FormData("hello", "asciiz", Hi)                      \* hello: .asciiz 'Hi'
TestH == FormData("test", "asciiz", << 72 >>)                   \* test: .asciiz 'H'
Hlt == FormOpcode(None, "HLT", << >>)                           \* hlt
PrtsHello == FormLabelUse("PRTS", "hello")                      \* prts @hello
TestInc == FormOpcode(Some(LabelDeclaration("test")), "INC", << Register(0) >>)  \* test: inc $0

InstrSet == { DataHeader, CodeHeader, HelloHi, TestH, Hlt, PrtsHello, TestInc }

Programs == UNION { [1..n -> InstrSet] : n \in 0..MaxInstr }

Load(r, n) == FormOpcode(None, "LOAD", << Register(r), IntegerOperand(n) >>)

\* assembler/mod.rs test_assemble_program: no section header
ScenarioNoSections ==
    << Load(0, 100), Load(1, 1), Load(2, 0), TestInc,
       FormOpcode(None, "NEQ", << Register(0), Register(2) >>),
       FormLabelUse("JMPE", "test"), Hlt >>
\* assembler/mod.rs test_code_start_offset_written
ScenarioOffsetWritten ==
    << DataHeader, FormData("test1", "asciiz", Hello), CodeHeader >> \o ScenarioNoSections
\* assembler/program.rs test_complete_program, with the string shortened
ScenarioComplete == << DataHeader, FormData("hello", "asciiz", Hello), CodeHeader, Hlt >>
\* heap allocation after a load
ScenarioAloc ==
    << DataHeader, CodeHeader, Load(0, 3),
       FormOpcode(None, "ALOC", << Register(0) >>), Hlt >>
\* an opcode with a register and two integer operands
ScenarioWide ==
    << DataHeader, CodeHeader,
       FormOpcode(None, "LOAD", << Register(0), IntegerOperand(1), IntegerOperand(2) >>),
       Hlt >>

\* a string declared and printed; the same after another string
ScenarioPrts == << DataHeader, HelloHi, CodeHeader, PrtsHello, Hlt >>
ScenarioPrtsSecond == << DataHeader, TestH, HelloHi, CodeHeader, PrtsHello, Hlt >>

\* directives the assembler does not know: `.foo` and `.foo #1`
FooHeader == FormDirective("foo", << >>)
FooOne == FormDirective("foo", << IntegerOperand(1) >>)
ScenarioUnknownHeader == << FooHeader, Hlt, DataHeader, CodeHeader, Hlt >>
ScenarioUnknownDirective == << FooOne, DataHeader, FooOne, HelloHi, CodeHeader, Hlt >>

\* parse_register takes any u8: `load $32 #1`
ScenarioRegister32 == << DataHeader, CodeHeader, Load(RegisterCount, 1), Hlt >>

Scenarios == { ScenarioNoSections, ScenarioOffsetWritten, ScenarioComplete,
               ScenarioAloc, ScenarioWide, ScenarioPrts, ScenarioPrtsSecond,
               ScenarioUnknownHeader, ScenarioUnknownDirective, ScenarioRegister32 }

\* `load $r #v` alone in the code section, for literals on both sides of
\* 2^8, 2^15, 2^16 and the largest i32
Literals == { 0, 1, 255, 256, 500, 32767, 32768, 65535, 65536, 65537, 70000, MaxI32 }
LoadRegisters == { 0, 1, RegisterCount - 1 }
LoadSources ==
    { << DataHeader, CodeHeader, Load(r, v) >> : r \in LoadRegisters, v \in Literals }

Sources == Programs \cup Scenarios \cup LoadSources

-----------------------------------------------------------------------------
(* The host (bin/iridium.rs main): assemble the source with a new          *)
(* Assembler, add the image to a new VM, run it.                           *)

NoProbe == [fn |-> "none"]
Stage(st, idx, body) == [stage |-> st, idx |-> idx, body |-> body]
VState(st, why) == [state |-> st, panic |-> why]

Init ==
    /\ src \in Sources
    /\ asm = AssemblerNew
    /\ apc = Stage("start", 0, << >>)
    /\ result = None
    /\ \E id \in Uuids : vm = VMNew(id)
    /\ vpc = VState("idle", "")
    /\ probe = NoProbe

\* assemble: Program::parse(raw), and its two arms.
AssembleBegin ==
    /\ apc.stage = "start"
    /\ IF src = << >>
       THEN /\ result' = Some(AssembleErr(<< ParsingError >>))
            /\ apc' = Stage("done", 0, << >>)
       ELSE /\ result' = result
            /\ apc' = Stage("first", 0, << >>)
    /\ UNCHANGED << src, asm, vm, vpc, probe >>

\* process_first_phase: one iteration of its loop.
FirstPhaseStep ==
    /\ apc.stage = "first"
    /\ apc.idx < Len(src)
    /\ LET i == src[apc.idx + 1]
       IN  IF DirectivePanics(i)
           THEN /\ apc' = Stage("panicked", apc.idx, << >>)
                /\ asm' = asm
           ELSE /\ apc' = Stage("first", apc.idx + 1, << >>)
                /\ asm' = FirstPhaseInstruction(asm, i)
    /\ UNCHANGED << src, result, vm, vpc, probe >>

\* The end of process_first_phase, and assemble's two checks after it.
FirstPhaseEnd ==
    /\ apc.stage = "first"
    /\ apc.idx = Len(src)
    /\ LET a == [asm EXCEPT !.phase = "Second"]
       IN  IF a.errors # << >>
           THEN /\ asm' = a
                /\ result' = Some(AssembleErr(a.errors))
                /\ apc' = Stage("done", 0, << >>)
           ELSE IF Len(a.sections) # 2
           THEN /\ asm' = [a EXCEPT !.errors = Append(@, InsufficientSections)]
                /\ result' = Some(AssembleErr(asm'.errors))
                /\ apc' = Stage("done", 0, << >>)
           ELSE \* process_second_phase begins
                /\ asm' = [a EXCEPT !.curr_instruction = 0]
                /\ result' = result
                /\ apc' = Stage("second", 0, << >>)
    /\ UNCHANGED << src, vm, vpc, probe >>

\* process_second_phase: one iteration of its loop.
SecondPhaseStep ==
    /\ apc.stage = "second"
    /\ apc.idx < Len(src)
    /\ LET i == src[apc.idx + 1]
       IN  /\ apc' = Stage("second", apc.idx + 1, apc.body \o SecondPhaseBytes(asm, i))
           /\ asm' = SecondPhaseInstruction(asm, i)
    /\ UNCHANGED << src, result, vm, vpc, probe >>

\* assemble's return: the header, with the body appended.
AssembleImage(a, body) == write_pie_header(a) \o body

AssembleReturn ==
    /\ apc.stage = "second"
    /\ apc.idx = Len(src)
    /\ result' = Some(AssembleOk(AssembleImage(asm, apc.body)))
    /\ apc' = Stage("done", 0, << >>)
    /\ UNCHANGED << src, asm, vm, vpc, probe >>

\* vm.add_bytes(program) with the image assemble returned
LoadImage ==
    /\ apc.stage = "done"
    /\ IsSome(result) /\ Unwrap(result).ok
    /\ vpc.state = "idle"
    /\ vm' = add_bytes(vm, Unwrap(result).image)
    /\ vpc' = VState("loaded", "")
    /\ UNCHANGED << src, asm, apc, result, probe >>

\* A prologue that starts the event log afresh.
RunPrologueForgetting(v) ==
    LET w == [v EXCEPT !.events = << VMEvent("Start", v.id) >>]
    IN  IF Len(w.program) < 4
        THEN [vm |-> w, vpc |-> VState("panicked", "slice index")]
        ELSE IF ~verify_header(w)
        THEN [vm |-> [w EXCEPT !.events = Append(@, VMEvent("Crash", v.id))],
              vpc |-> VState("crashed", "")]
        ELSE IF Len(w.program) < 8
        THEN [vm |-> w, vpc |-> VState("panicked", "slice index")]
        ELSE [vm |-> [w EXCEPT !.pc = 64 + get_starting_offset(w)],
              vpc |-> VState("running", "")]

\* run, up to its loop: the Start event, the header check, the starting pc.
RunPrologue(v) ==
    LET w == [v EXCEPT !.events = Append(@, VMEvent("Start", v.id))]
    IN  IF Len(w.program) < 4
        THEN [vm |-> w, vpc |-> VState("panicked", "slice index")]
        ELSE IF ~verify_header(w)
        THEN [vm |-> Say([w EXCEPT !.events = Append(@, VMEvent("Crash", v.id))],
                         Msg("Header was incorrect")),
              vpc |-> VState("crashed", "")]
        ELSE IF Len(w.program) < 8
        THEN [vm |-> w, vpc |-> VState("panicked", "slice index")]
        ELSE [vm |-> [w EXCEPT !.pc = 64 + get_starting_offset(w)],
              vpc |-> VState("running", "")]

\* vm.run() on the image just loaded
RunStart ==
    /\ vpc.state = "loaded"
    /\ vm' = RunPrologue(vm).vm
    /\ vpc' = RunPrologue(vm).vpc
    /\ UNCHANGED << src, asm, apc, result, probe >>

\* run's loop: one execute_instruction, and the Stop event when it is done.
RunStep ==
    /\ vpc.state = "running"
    /\ \E o \in execute_instruction(vm) :
          IF o.panic # ""
          THEN vm' = o.vm /\ vpc' = VState("panicked", o.panic)
          ELSE IF IsSome(o.is_done)
          THEN /\ vm' = [o.vm EXCEPT !.events = Append(@, VMEvent("Stop", vm.id))]
               /\ vpc' = VState("stopped", "")
          ELSE vm' = o.vm /\ vpc' = vpc
    /\ UNCHANGED << src, asm, apc, result, probe >>

Next ==
    \/ AssembleBegin
    \/ FirstPhaseStep
    \/ FirstPhaseEnd
    \/ SecondPhaseStep
    \/ AssembleReturn
    \/ LoadImage
    \/ RunStart
    \/ RunStep

Spec == Init /\ [][Next]_vars

-----------------------------------------------------------------------------
(* What the claims speak of.                                               *)

\* process_second_phase as a whole: the code bytes of the first k
\* instructions of program p.
RECURSIVE CodeBytes(_, _, _)
CodeBytes(a, p, k) ==
    IF k = 0 THEN << >> ELSE CodeBytes(a, p, k - 1) \o SecondPhaseBytes(a, p[k])

\* The index, in the image assemble returns (the header, then the body), of
\* the first byte emitted for instruction k of p.
ImageIndexOf(a, p, k) == PIE_HEADER_LENGTH + Len(CodeBytes(a, p, k - 1))

OpcodeIndexes(p) == { k \in 1..Len(p) : is_opcode(p[k]) }
FirstOpcode(p) == CHOOSE k \in OpcodeIndexes(p) : \A j \in OpcodeIndexes(p) : k <= j

Assembled == IsSome(result) /\ Unwrap(result).ok
Image == Unwrap(result).image

\* C1: for every image a successful assemble returns, run starts executing at
\* the opcode byte of the first opcode instruction of the source, whatever
\* the size of the read-only section.
C1_RunStartsAtFirstOpcode ==
    [][(RunStart /\ vpc'.state = "running" /\ OpcodeIndexes(src) # {})
          => vm'.pc = ImageIndexOf(asm, src, FirstOpcode(src))]_vars

\* C2: the image of a successful assembly is the 64-byte header, then the
\* read-only bytes, then the code bytes: image[64 .. 64+ro_len] is the
\* read-only buffer and the length is 64 + ro_len + code length.
C2_ImageHoldsReadOnlySection ==
    Assembled =>
        /\ Len(Image) = PIE_HEADER_LENGTH + Len(asm.ro) + Len(CodeBytes(asm, src, Len(src)))
        /\ Slice(Image, PIE_HEADER_LENGTH, PIE_HEADER_LENGTH + Len(asm.ro)) = asm.ro

\* C3: every image assemble returns starts with a 64-byte header: the magic
\* 45, 50, 49, 45; the length of the read-only buffer as an unsigned
\* little-endian 32-bit number; zeros in bytes 8..64.
C3_HeaderLayout ==
    Assembled =>
        /\ Len(Image) >= 64
        /\ << At(Image, 0), At(Image, 1), At(Image, 2), At(Image, 3) >> = << 45, 50, 49, 45 >>
        /\ At(Image, 4) + 256 * At(Image, 5) + 65536 * At(Image, 6)
              + 16777216 * At(Image, 7) = Len(asm.ro)
        /\ \A k \in 4..7 : At(Image, k) \in 0..255
        /\ \A k \in 8..63 : At(Image, k) = 0

\* An image was returned whose source laid out a read-only section.
C3_Witness == Assembled /\ Len(asm.ro) > 0

-----------------------------------------------------------------------------
(* The opcode table on its own: an opcode the assembler emits as a byte    *)
(* (`*code as u8`) and a byte of an image the VM decodes (From<u8>).       *)

OpcodeProbe(code, byte, decoded) ==
    [fn |-> "opcode", code |-> code, byte |-> byte, decoded |-> decoded]

InitOpcode ==
    /\ src = << >>
    /\ asm = AssemblerNew
    /\ apc = Stage("start", 0, << >>)
    /\ result = None
    /\ vm = VMNew("uuid-1")
    /\ vpc = VState("idle", "")
    /\ \/ \E code \in Opcode : probe = OpcodeProbe(Some(code), None, None)
       \/ \E byte \in 0..(U8 - 1) : probe = OpcodeProbe(None, Some(byte), None)

\* to_bytes pushes `*code as u8`.
CastOpcode ==
    /\ IsSome(probe.code) /\ ~IsSome(probe.byte)
    /\ probe' = [probe EXCEPT !.byte = Some(OpcodeAsU8(Unwrap(probe.code)))]
    /\ UNCHANGED << src, asm, apc, result, vm, vpc >>

\* decode_opcode: Opcode::from(byte).
DecodeByte ==
    /\ IsSome(probe.byte) /\ ~IsSome(probe.decoded)
    /\ probe' = [probe EXCEPT !.decoded = Some(OpcodeFromU8(Unwrap(probe.byte)))]
    /\ UNCHANGED << src, asm, apc, result, vm, vpc >>

NextOpcode ==
    \/ CastOpcode
    \/ DecodeByte

SpecOpcode == InitOpcode /\ [][NextOpcode]_vars

\* C4: every opcode cast to a byte decodes back to itself, and every byte
\* that is not the code of a legal opcode decodes to IGL.
C4_OpcodeTableConsistent ==
    (probe.fn = "opcode" /\ IsSome(probe.decoded)) =>
        /\ IsSome(probe.code) => Unwrap(probe.decoded) = Unwrap(probe.code)
        /\ Unwrap(probe.byte) \notin { OpcodeAsU8(code) : code \in Opcode \ { "IGL" } }
              => Unwrap(probe.decoded) = "IGL"

-----------------------------------------------------------------------------
(* to_bytes on its own, with a symbol table built through SymbolTable's    *)
(* public functions.                                                       *)

MaxSymbols == 2
SymbolNames == { "hello", "test" }
SymbolOffsets == { 0, 3, 258, 65539 }
EncodedInstructions ==
    { PrtsHello, FormLabelUse("JMPE", "test"), Load(0, 500), Hlt }

ToBytesProbe(instr, symbols, ret) ==
    [fn |-> "to_bytes", instr |-> instr, symbols |-> symbols, ret |-> ret]

InitToBytes ==
    /\ src = << >>
    /\ asm = AssemblerNew
    /\ apc = Stage("start", 0, << >>)
    /\ result = None
    /\ vm = VMNew("uuid-1")
    /\ vpc = VState("idle", "")
    /\ \E instr \in EncodedInstructions : probe = ToBytesProbe(instr, << >>, None)

ProbeAddSymbol ==
    /\ ~IsSome(probe.ret)
    /\ Len(probe.symbols) < MaxSymbols
    /\ \E name \in SymbolNames :
          probe' = [probe EXCEPT !.symbols = add_symbol(@, Symbol(name))]
    /\ UNCHANGED << src, asm, apc, result, vm, vpc >>

ProbeSetSymbolOffset ==
    /\ ~IsSome(probe.ret)
    /\ \E name \in SymbolNames, offset \in SymbolOffsets :
          probe' = [probe EXCEPT !.symbols = set_symbol_offset(@, name, offset)]
    /\ UNCHANGED << src, asm, apc, result, vm, vpc >>

ProbeToBytes ==
    /\ ~IsSome(probe.ret)
    /\ probe' = [probe EXCEPT !.ret = Some(to_bytes(probe.instr, probe.symbols))]
    /\ UNCHANGED << src, asm, apc, result, vm, vpc >>

NextToBytes ==
    \/ ProbeAddSymbol
    \/ ProbeSetSymbolOffset
    \/ ProbeToBytes

SpecToBytes == InitToBytes /\ [][NextToBytes]_vars

\* C8: an instruction `<opcode> @name` whose symbol has offset k is emitted
\* as the opcode byte, the high byte of the low 16 bits of k, the low byte
\* of k, and one zero byte.
C8_LabelUseEmitsOffset ==
    (/\ probe.fn = "to_bytes"
     /\ IsSome(probe.ret)
     /\ is_opcode(probe.instr) /\ is_label_usage(probe.instr)
     /\ IsSome(symbol_value(probe.symbols, Unwrap(probe.instr.label).name)))
    => LET k == Unwrap(symbol_value(probe.symbols, Unwrap(probe.instr.label).name))
       IN  Unwrap(probe.ret) =
              << OpcodeAsU8(Unwrap(probe.instr.opcode).code),
                 (k \div 256) % 256, k % 256, 0 >>

-----------------------------------------------------------------------------
(* The assembler's passes and the VM's loop, as the claims speak of them.  *)

\* The opcode instructions among the first k instructions of p.
OpcodeCount(p, k) == Cardinality({ j \in 1..k : is_opcode(p[j]) })

\* process_first_phase over the first k instructions of p, from a new
\* assembler.
RECURSIVE FirstPhasePrefix(_, _)
FirstPhasePrefix(p, k) ==
    IF k = 0 THEN AssemblerNew
    ELSE FirstPhaseInstruction(FirstPhasePrefix(p, k - 1), p[k])

\* Pass 1 of a successful assembly is over.
PassOneDone == apc.stage = "second" \/ Assembled

\* C5: every instruction that carries an opcode contributes exactly four
\* bytes to the code section, whatever operands it was written with, so the
\* code section is 4 x (number of opcode instructions) long.
C5_FourBytesPerOpcodeInstruction ==
    /\ apc.stage = "second" => Len(apc.body) = 4 * OpcodeCount(src, apc.idx)
    /\ Assembled => Len(Image) - PIE_HEADER_LENGTH = 4 * OpcodeCount(src, Len(src))

\* C6: an HLT executed by run ends the run: the loop stops, the pc stays one
\* past the HLT byte, registers, flag and heap are as they were, and the
\* Stop event is appended.
C6_HltEndsRun ==
    [][(vpc.state = "running" /\ ~PcOutside(vm) /\ decode_opcode(vm) = "HLT")
          => /\ vpc'.state = "stopped"
             /\ vm'.pc = vm.pc + 1
             /\ vm'.registers = vm.registers
             /\ vm'.equal_flag = vm.equal_flag
             /\ vm'.heap = vm.heap
             /\ vm'.events = Append(vm.events, VMEvent("Stop", vm.id))]_vars

\* The opcodes execute_instruction has an arm for, HLT aside.
ExecutedOpcodes ==
    { "LOAD", "DIV", "ALOC", "INC", "DEC", "JMPE", "PRTS", "LOADF64", "NOP",
      "SHL", "SHR" } \cup ArithOps \cup CmpOps \cup FloatArithOps \cup FloatCmpOps
\* The instruction at the pc is a jump that overwrites the pc.
OverwritesPc(v) ==
    \/ decode_opcode(v) \in { "JMP", "JMPF", "JMPB" }
    \/ decode_opcode(v) = "JMPE" /\ v.equal_flag

\* C7: every instruction the loop executes, other than a jump that
\* overwrites the pc, advances the pc by exactly 4.
C7_NonJumpAdvancesFour ==
    [][(/\ vpc.state = "running" /\ vpc'.state = "running"
        /\ ~PcOutside(vm)
        /\ decode_opcode(vm) \in ExecutedOpcodes
        /\ ~OverwritesPc(vm))
          => vm'.pc = vm.pc + 4]_vars

\* Instruction i is `<label>: .asciiz '<string>'`.
IsAsciizDeclaration(i) ==
    /\ is_label_declaration(i)
    /\ get_directive_name(i) = Some("asciiz")
    /\ IsSome(get_string_constant(i))

\* C9: after pass 1 of a successful assembly, the label of every .asciiz
\* declaration has a defined offset, the ro_offset in effect just before its
\* string was appended, and symbol_value returns it.
C9_AsciizLabelHasOffset ==
    PassOneDone =>
        \A k \in 1..Len(src) :
            IsAsciizDeclaration(src[k]) =>
                symbol_value(asm.symbols, Unwrap(get_label_declaration_name(src[k])))
                    = Some(FirstPhasePrefix(src, k - 1).ro_offset)

\* C10: after pass 1 of a successful assembly, a label declared on an opcode
\* instruction has offset 4 x (number of opcode instructions before it).
C10_CodeLabelHasOffset ==
    PassOneDone =>
        \A k \in 1..Len(src) :
            (is_opcode(src[k]) /\ is_label_declaration(src[k])) =>
                symbol_value(asm.symbols, Unwrap(get_label_declaration_name(src[k])))
                    = Some(4 * OpcodeCount(src, k - 1))

-----------------------------------------------------------------------------
(* The VM on its own: run called, once or again, on a VM whose program is  *)
(* any byte vector handed to add_bytes.                                    *)

MaxRuns == 2

\* vm.rs prepend_header: the magic, zeros up to 64 bytes, then the body.
prepend_header(b) ==
    [k \in 1..PIE_HEADER_LENGTH |->
        IF k <= Len(PIE_HEADER_PREFIX) THEN PIE_HEADER_PREFIX[k] ELSE 0] \o b

\* Byte vectors that do not start with the magic, the short ones included.
BadHeaderImages ==
    { << >>, << 45 >>, << 45, 50, 49 >>, << 45, 50, 49, 46 >>,
      << 0, 0, 0, 0, 0, 0, 0, 0 >>, << 46, 50, 49, 45, 0, 0, 0, 0, 5, 0, 0, 0 >>,
      [k \in 1..68 |-> IF k = 65 THEN 5 ELSE 0] }

\* One instruction of four bytes for every opcode byte, the byte past the
\* table included.
InstructionBytes ==
    { << op, a, b, c >> : op \in 0..Len(OpcodeList), a \in { 0, 1 }, b \in { 0, 1 },
                          c \in { 0, 2 } }

\* What runs before it: nothing; eq $0 $0; eq $0 $0, load $1 #7.
CodePrefixes == { << >>, << 9, 0, 0, 0 >>, << 9, 0, 0, 0, 0, 1, 0, 7 >> }

RunImages ==
    BadHeaderImages \cup { << 45, 50, 49, 45 >> }
        \cup { prepend_header(p \o i) : p \in CodePrefixes, i \in InstructionBytes }

RunProbe(calls) == [fn |-> "run", calls |-> calls]

InitRun ==
    /\ src = << >>
    /\ asm = AssemblerNew
    /\ apc = Stage("start", 0, << >>)
    /\ result = None
    /\ \E id \in Uuids, image \in RunImages : vm = add_bytes(VMNew(id), image)
    /\ vpc = VState("loaded", "")
    /\ probe = RunProbe(0)

\* vm.run(), called on a VM that is not running.
RunCall ==
    /\ probe.fn = "run"
    /\ vpc.state \in { "loaded", "stopped", "crashed" }
    /\ probe.calls < MaxRuns
    /\ vm' = RunPrologue(vm).vm
    /\ vpc' = RunPrologue(vm).vpc
    /\ probe' = RunProbe(probe.calls + 1)
    /\ UNCHANGED << src, asm, apc, result >>

NextRun ==
    \/ RunCall
    \/ RunStep

SpecRun == InitRun /\ [][NextRun]_vars

HeaderOk(program) == Len(program) >= 4 /\ Slice(program, 0, 4) = PIE_HEADER_PREFIX

EventTypes(v) == [k \in 1..Len(v.events) |-> v.events[k].event]

\* C12: run on a program whose first four bytes are not the magic (a program
\* shorter than four bytes included) appends Start then Crash and returns:
\* no Stop, and registers, pc, heap, flag and remainder as they were.
C12_BadHeaderCrashes ==
    [][(RunCall /\ ~HeaderOk(vm.program))
          => /\ vpc'.state = "crashed"
             /\ EventTypes(vm') = EventTypes(vm) \o << "Start", "Crash" >>
             /\ vm'.registers = vm.registers
             /\ vm'.pc = vm.pc
             /\ vm'.heap = vm.heap
             /\ vm'.equal_flag = vm.equal_flag
             /\ vm'.remainder = vm.remainder]_vars

IsPrefix(s, t) == Len(s) <= Len(t) /\ SubSeq(t, 1, Len(s)) = s

\* The log of the runs that returned: pairs of Start and a terminal event.
RECURSIVE CompleteRuns(_)
CompleteRuns(types) ==
    \/ types = << >>
    \/ /\ Len(types) >= 2
       /\ types[1] = "Start"
       /\ types[2] \in { "Stop", "Crash" }
       /\ CompleteRuns(SubSeq(types, 3, Len(types)))

\* The shape of the log in every state of the VM.
EventLogInOrder ==
    LET types == EventTypes(vm)
        last == types[Len(types)]
    IN  /\ \A k \in 1..Len(vm.events) : vm.events[k].app_id = vm.id
        /\ vpc.state \in { "loaded", "stopped", "crashed" } => CompleteRuns(types)
        /\ vpc.state \in { "running", "panicked" } =>
              /\ types # << >> /\ last = "Start"
              /\ CompleteRuns(SubSeq(types, 1, Len(types) - 1))
        /\ vpc.state = "crashed" => last = "Crash" /\ ~HeaderOk(vm.program)
        /\ vpc.state = "stopped" => last = "Stop" /\ HeaderOk(vm.program)

\* C13: the event log only grows; each run that returns appends Start and
\* then one terminal event, Crash exactly when the header check failed and
\* Stop otherwise; every event carries the id of the VM.
C13_EventLogAppendOnly ==
    /\ []EventLogInOrder
    /\ [][IsPrefix(vm.events, vm'.events)]_vars

\* Two runs have returned, and the log holds both.
C13_Witness ==
    /\ probe.fn = "run" /\ probe.calls = 2
    /\ vpc.state \in { "stopped", "crashed" }
    /\ Len(vm.events) = 4

\* C14: the equality flag changes only when a comparison opcode executes;
\* every other opcode, JMPE taken or not included, leaves it as it was.
C14_FlagWrittenByComparisonsOnly ==
    [][vm'.equal_flag # vm.equal_flag
          => /\ vpc.state = "running"
             /\ ~PcOutside(vm)
             /\ decode_opcode(vm) \in CmpOps \cup FloatCmpOps]_vars

\* eq $0 $0 set the flag, a JMPE after it was taken, and the flag is still
\* set.
C14_Witness ==
    /\ probe.fn = "run"
    /\ Len(vm.program) = 72 /\ At(vm.program, 64) = 9 /\ At(vm.program, 68) = 15
    /\ vpc.state = "running" /\ vm.pc \notin { 64, 68, 69 }
    /\ vm.equal_flag

-----------------------------------------------------------------------------
(* Assemble, load and run: a declared string printed.                      *)

\* p is a .data section of .asciiz declarations, then .code, `prts @name`
\* for one of the declared names, and hlt.
PrtsProgram(p) ==
    /\ Len(p) >= 5
    /\ p[1] = DataHeader
    /\ \A k \in 2..(Len(p) - 3) : IsAsciizDeclaration(p[k])
    /\ p[Len(p) - 2] = CodeHeader
    /\ is_opcode(p[Len(p) - 1]) /\ is_label_usage(p[Len(p) - 1])
    /\ Unwrap(p[Len(p) - 1].opcode).code = "PRTS"
    /\ p[Len(p)] = Hlt
    /\ \E k \in 2..(Len(p) - 3) :
          Unwrap(p[k].label).name = Unwrap(p[Len(p) - 1].label).name

\* The string declared under the name the prts of p uses.
PrtsString(p) ==
    LET k == CHOOSE k \in 2..(Len(p) - 3) :
                 Unwrap(p[k].label).name = Unwrap(p[Len(p) - 1].label).name
    IN  Unwrap(get_string_constant(p[k]))

\* The strings PRTS has printed, in order.
RECURSIVE PrintedStrings(_)
PrintedStrings(out) ==
    IF out = << >> THEN << >>
    ELSE (IF out[1].kind = "prts" THEN << out[1].bytes >> ELSE << >>)
            \o PrintedStrings(Tail(out))

\* C11: a source declaring `name: .asciiz 'S'` in .data and holding
\* `prts @name` then `hlt` in .code, assembled, loaded and run, prints
\* exactly the characters of S.
C11_PrtsPrintsDeclaredString ==
    (PrtsProgram(src) /\ vpc.state \in { "stopped", "panicked", "crashed" })
        => PrintedStrings(vm.stdout) = << PrtsString(src) >>

-----------------------------------------------------------------------------
(* The errors of pass 1, told from the source alone.                       *)

\* Instruction i is a section header the assembler recognises.
RecognisedHeader(i) ==
    /\ is_directive(i) /\ ~contain_operands(i)
    /\ AssemblerSectionFrom(Unwrap(get_directive_name(i))) # "Unknown"

\* A recognised header is among the first k instructions of p.
SectionSeenBy(p, k) == \E j \in 1..k : RecognisedHeader(p[j])
SectionCount(p) == Cardinality({ k \in 1..Len(p) : RecognisedHeader(p[k]) })

\* Instruction k of p declares a label inside a section.
DeclaresLabel(p, k) == is_label_declaration(p[k]) /\ SectionSeenBy(p, k)

\* The errors instruction k of p gives rise to in pass 1, in order.
ErrorsAt(p, k) ==
    (IF is_directive(p[k]) /\ contain_operands(p[k])
        /\ Unwrap(get_directive_name(p[k])) \notin { "asciiz", "integer" }
     THEN << UnknownDirectiveFound(Unwrap(get_directive_name(p[k]))) >> ELSE << >>)
    \o (IF ~SectionSeenBy(p, k) THEN << NoSegmentDeclarationFound(k - 1) >>
        ELSE IF /\ is_label_declaration(p[k])
                /\ \E j \in 1..(k - 1) :
                      /\ DeclaresLabel(p, j)
                      /\ Unwrap(p[j].label).name = Unwrap(p[k].label).name
        THEN << SymbolAlreadyDeclared >> ELSE << >>)

RECURSIVE ErrorsUpTo(_, _)
ErrorsUpTo(p, k) == IF k = 0 THEN << >> ELSE ErrorsUpTo(p, k - 1) \o ErrorsAt(p, k)

IsNoSegment(e) == e.kind = "NoSegmentDeclarationFound"
Contains(errors, e) == \E k \in 1..Len(errors) : errors[k] = e

\* assemble has returned, after pass 1 ran.
Returned == IsSome(result) /\ src # << >>

C16_InsufficientSectionsReported ==
    Returned =>
        /\ SectionCount(src) # 2 =>
              /\ ~Unwrap(result).ok
              /\ Contains(Unwrap(result).errors, InsufficientSections)
        /\ SectionCount(src) = 2 =>
              ~Contains(Unwrap(result).errors, InsufficientSections)

NamesUnique(symbols) ==
    \A j, k \in 1..Len(symbols) : symbols[j].name = symbols[k].name => j = k

\* C17: the assembler's symbol table never holds two symbols of one name;
\* declaring, inside a section, a label whose name exists records
\* SymbolAlreadyDeclared, leaves the table as it was, and assemble returns
\* a list containing SymbolAlreadyDeclared.
C17_SymbolsUnique ==
    /\ [](NamesUnique(asm.symbols))
    /\ []((Returned /\ \E k \in 1..Len(src) : ErrorsAt(src, k) = << SymbolAlreadyDeclared >>)
            => /\ ~Unwrap(result).ok
               /\ Contains(Unwrap(result).errors, SymbolAlreadyDeclared))
    /\ [][(/\ apc.stage = "first" /\ apc.idx < Len(src)
           /\ ErrorsAt(src, apc.idx + 1) = << SymbolAlreadyDeclared >>)
            => /\ asm'.errors = Append(asm.errors, SymbolAlreadyDeclared)
               /\ asm'.symbols = asm.symbols]_vars

\* C18: add_symbol with a name already in the table leaves the table as it
\* was: a table built through add_symbol holds one symbol per name.
C18_AddSymbolRejectsDuplicates ==
    probe.fn = "to_bytes" => NamesUnique(probe.symbols)

\* What pass 2 leaves behind: the section headers listed a second time.
PassTwoRan == Len(asm.sections) > SectionCount(src) \/ apc.stage = "second"

\* assemble returns an image only if pass 1 recorded no error; otherwise it
\* returns the errors pass 1 recorded, all of them and in instruction order,
\* and pass 2 is not run.
ErrorsReturnedInOrder ==
    /\ apc.stage = "second" => ErrorsUpTo(src, Len(src)) = << >>
    /\ Returned =>
          /\ Unwrap(result).ok => ErrorsUpTo(src, Len(src)) = << >>
          /\ ErrorsUpTo(src, Len(src)) # << >> =>
                /\ ~Unwrap(result).ok
                /\ Unwrap(result).errors = ErrorsUpTo(src, Len(src))
                /\ ~PassTwoRan

\* C19, as stated: the list returned holds one error for each offending
\* instruction.
C19_OneErrorPerInstruction ==
    /\ ErrorsReturnedInOrder
    /\ (Returned /\ ErrorsUpTo(src, Len(src)) # << >>) =>
          Len(Unwrap(result).errors)
              = Cardinality({ k \in 1..Len(src) : ErrorsAt(src, k) # << >> })

\* C19, amended: the list returned is the errors of pass 1 in instruction
\* order, an instruction contributing one error or two
\* (UnknownDirectiveFound, then NoSegmentDeclarationFound).
C19_ErrorsOfPassOneReturned ==
    /\ ErrorsReturnedInOrder
    /\ \A k \in 1..Len(src) : Len(ErrorsAt(src, k)) <= 2

\* assemble failed with the two errors of one instruction, and others.
C19_Witness ==
    /\ Returned /\ ~Unwrap(result).ok
    /\ Len(ErrorsAt(src, 1)) = 2
    /\ Len(Unwrap(result).errors) >= 3

-----------------------------------------------------------------------------
(* An integer operand, from the source to the register.                    *)

\* p is `.data`, `.code`, `load $r #v`.
LoadProgram(p) ==
    /\ Len(p) = 3 /\ p[1] = DataHeader /\ p[2] = CodeHeader
    /\ is_opcode(p[3]) /\ Unwrap(p[3].opcode).code = "LOAD"
    /\ ~IsSome(p[3].label) /\ ~IsSome(p[3].operand3)
    /\ IsSome(p[3].operand1) /\ Unwrap(p[3].operand1).kind = "Register"
    /\ IsSome(p[3].operand2) /\ Unwrap(p[3].operand2).kind = "IntegerOperand"
LoadRegister(p) == Unwrap(p[3].operand1).reg_num
LoadLiteral(p) == Unwrap(p[3].operand2).value

\* C20: an integer literal v in 0..65535 is emitted as the two bytes
\* (v >> 8) & 0xFF, v & 0xFF, the VM reads v back from them, and
\* `load $r #v` assembled and executed leaves registers[r] = v; a larger
\* literal leaves v mod 65536.
C20_IntegerOperandRoundTrip ==
    LoadProgram(src) =>
        LET r == LoadRegister(src)
            v == LoadLiteral(src)
        IN  /\ (Assembled /\ v <= 65535) =>
                  Slice(Image, 64, 68) = << 0, r, (v \div 256) % 256, v % 256 >>
            /\ (vpc.state = "running" /\ vm.pc = 64) =>
                  /\ v <= 65535 => B16(vm, 2) = v
                  /\ v > 65535 => B16(vm, 2) = v % 65536
            /\ (vpc.state \in { "running", "stopped" } /\ vm.pc = 68) =>
                  /\ v <= 65535 => vm.registers[r] = v
                  /\ v > 65535 => vm.registers[r] = v % 65536
            /\ vpc.state # "panicked"

\* A literal of two significant bytes was loaded and the run has stopped.
C20_Witness ==
    /\ LoadProgram(src) /\ LoadLiteral(src) = 500 /\ LoadRegister(src) = 31
    /\ vpc.state = "stopped" /\ vm.registers[31] = 500

-----------------------------------------------------------------------------
(* Single instructions on chosen register values.  `registers` is a public *)
(* field: get_test_vm writes registers[0] and registers[1], and            *)
(* test_mul_opcode runs the instruction behind prepend_header.  The flag   *)
(* is private: eq $2 $2 before the instruction sets it.                    *)

RegisterValues == { MinI32, -7, -1, 0, 1, 2, 5, 7, 10, 100, 65536, MaxI32 }

\* The byte From<u8> decodes to op.
ByteOf(op) == CHOOSE b \in 0..Len(FromU8Arms) : OpcodeFromU8(b) = op

ExecOps == { "ADD", "SUB", "MUL", "DIV", "JMP", "JMPF", "JMPB", "JMPE", "INC", "DEC" }
ExecOperands == { << 0, 1, 2 >>, << 1, 0, 0 >>, << 0, 0, 1 >> }
FlagPrefixes == { << >>, << ByteOf("EQ"), 2, 2, 0 >> }

\* get_test_vm with x and y in place of 5 and 10
TestVm(id, x, y) ==
    [VMNew(id) EXCEPT !.registers[0] = x, !.registers[1] = y]

InitExec ==
    /\ src = << >>
    /\ asm = AssemblerNew
    /\ apc = Stage("start", 0, << >>)
    /\ result = None
    /\ \E id \in Uuids, x \in RegisterValues, y \in RegisterValues,
          op \in ExecOps, operands \in ExecOperands, p \in FlagPrefixes :
          vm = add_bytes(TestVm(id, x, y),
                         prepend_header(p \o << ByteOf(op) >> \o operands))
    /\ vpc = VState("loaded", "")
    /\ probe = [fn |-> "exec"]

NextExec ==
    \/ RunStart
    \/ RunStep

SpecExec == InitExec /\ [][NextExec]_vars

\* The loop is about to execute opcode op, whose n operand bytes are there
\* and name registers.
About(op, n) ==
    /\ vpc.state = "running"
    /\ ~PcOutside(vm)
    /\ decode_opcode(vm) = op
    /\ Avail(vm) >= n
    /\ \A k \in 1..n : B(vm, k) < RegisterCount

\* x + y, x - y and x * y are i32 values.
InI32(op, x, y) ==
    CASE op = "ADD" -> IF y >= 0 THEN x <= MaxI32 - y ELSE x >= MinI32 - y
      [] op = "SUB" -> IF y >= 0 THEN x >= MinI32 + y ELSE x <= MaxI32 + y
      [] op = "MUL" -> \/ x = 0 \/ y = 0
                       \/ (x # MinI32 /\ y # MinI32 /\ Abs(x) <= MaxI32 \div Abs(y))
                       \/ (x = MinI32 /\ y = 1) \/ (x = 1 /\ y = MinI32)

\* q is x / y: what is left of x is smaller than y and has the sign of x.
IsQuotient(q, x, y) ==
    LET r == x - q * y
    IN  /\ IF y > 0 THEN r > -y /\ r < y ELSE r > y /\ -r > y
        /\ r = 0 \/ (r > 0) = (x > 0)

Exact(op, x, y) ==
    CASE op = "ADD" -> x + y
      [] op = "SUB" -> x - y
      [] op = "MUL" -> x * y

\* Everything but register d, the pc and the output is as it was.
SameBut(d) ==
    /\ \A r \in Registers \ { d } : vm'.registers[r] = vm.registers[r]
    /\ vm'.equal_flag = vm.equal_flag
    /\ vm'.heap = vm.heap
    /\ vm'.program = vm.program

-----------------------------------------------------------------------------
(* run_once on a program without a header, as the tests of vm.rs and the   *)
(* REPL's run_single call it.                                              *)

MaxOnce == 2

\* The programs of test_jmp_opcode, test_jmpf_opcode, test_eq_opcode,
\* test_jeq_opcode and test_aloc_opcode, an ALOC, and a program long enough
\* to hold byte 65.
OncePrograms ==
    { << 6, 0, 0, 0 >>, << 7, 0, 0, 0, 6, 0, 0, 0 >>, << 9, 0, 1, 0, 9, 0, 1, 0 >>,
      << 15, 0, 0, 0, 17, 0, 0, 0, 17, 0, 0, 0 >>, << 16, 0, 0, 0 >>,
      << ByteOf("ALOC"), 0, 0, 0 >>,
      [k \in 1..72 |-> IF k = 66 THEN ByteOf("INC") ELSE 0] }

InitOnce ==
    /\ src = << >>
    /\ asm = AssemblerNew
    /\ apc = Stage("start", 0, << >>)
    /\ result = None
    /\ \E id \in Uuids, x \in { 1, 2, 7, 10, 1024 }, y \in { 10, 20 },
          program \in OncePrograms :
          vm = [TestVm(id, x, y) EXCEPT !.program = program]
    /\ vpc = VState("loaded", "")
    /\ probe = [fn |-> "once", calls |-> 0]

\* run_once: one execute_instruction, its result dropped.
RunOnce ==
    /\ probe.fn = "once"
    /\ vpc.state # "panicked"
    /\ probe.calls < MaxOnce
    /\ \E o \in execute_instruction(vm) :
          /\ vm' = o.vm
          /\ vpc' = IF o.panic # "" THEN VState("panicked", o.panic) ELSE vpc
    /\ probe' = [probe EXCEPT !.calls = @ + 1]
    /\ UNCHANGED << src, asm, apc, result >>

NextOnce == RunOnce

SpecOnce == InitOnce /\ [][NextOnce]_vars

\* C22: the first run_once of a new VM executes the instruction at byte 0
\* of its program: the VM it leaves is one that execute_instruction gives
\* from pc 0.
C22_FirstRunOnceStartsAtZero ==
    [][(RunOnce /\ probe.calls = 0)
          => \E o \in execute_instruction([vm EXCEPT !.pc = 0]) : vm' = o.vm]_vars

-----------------------------------------------------------------------------
(* REPL::spawn: the REPL keeps its VM (probe.repl) and hands a clone of it *)
(* to a thread, which runs it (vm, vpc).  probe.managers is the Manager    *)
(* behind each Arc<RwLock<Manager>>, as the set of its clients' aliases.   *)

MaxCommands == 3

Aliases == { "node-a", "node-b" }
SpawnImages ==
    { prepend_header(<< 0, 0, 0, 3, ByteOf("ALOC"), 0, 5 >>),
      prepend_header(<< ByteOf("INC"), 1, 0, 0 >>), << 5, 0, 0, 0 >> }

\* cluster/manager.rs
add_client(clients, alias) == IF alias \in clients THEN clients ELSE clients \cup { alias }
del_client(clients, alias) == clients \ { alias }

InitClone ==
    /\ src = << >>
    /\ asm = AssemblerNew
    /\ apc = Stage("start", 0, << >>)
    /\ result = None
    /\ \E id \in Uuids :
          /\ vm = VMNew(id)
          /\ probe = [fn |-> "clone", repl |-> VMNew(id), commands |-> 0,
                      managers |-> [m \in Uuids \cup { "detached" } |-> {}]]
    /\ vpc = VState("idle", "")

Spawned == probe.fn = "clone" /\ vpc.state # "idle"

\* spawn: the assembled program appended to the REPL's VM, and the clone
\* given to the thread.
Spawn ==
    /\ probe.fn = "clone"
    /\ vpc.state = "idle"
    /\ \E image \in SpawnImages :
          LET r == add_bytes(probe.repl, image)
          IN  /\ probe' = [probe EXCEPT !.repl = r]
              /\ vm' = Clone(r)
              /\ vpc' = VState("loaded", "")
    /\ UNCHANGED << src, asm, apc, result >>

\* join_cluster: conn_manager.write(), add_client(alias, cc)
JoinCluster ==
    /\ probe.fn = "clone"
    /\ probe.commands < MaxCommands
    /\ \E alias \in Aliases :
          probe' = [probe EXCEPT !.commands = @ + 1,
                                 !.managers[probe.repl.conn_manager] = add_client(@, alias)]
    /\ UNCHANGED << src, asm, apc, result, vm, vpc >>

\* run_single on an instruction: its bytes appended to the REPL's VM, and
\* run_once.
RunSingle ==
    /\ probe.fn = "clone"
    /\ probe.commands < MaxCommands
    /\ \E bytes \in { << ByteOf("INC"), 0, 0, 0 >>, << 5, 0, 0, 0 >> } :
          \E o \in execute_instruction(add_bytes(probe.repl, bytes)) :
             /\ o.panic = ""
             /\ probe' = [probe EXCEPT !.commands = @ + 1, !.repl = o.vm]
    /\ UNCHANGED << src, asm, apc, result, vm, vpc >>

ThroughRepl == JoinCluster \/ RunSingle
ThroughClone == RunStart \/ RunStep

NextClone ==
    \/ Spawn
    \/ JoinCluster
    \/ RunSingle
    \/ RunStart
    \/ RunStep

SpecClone == InitClone /\ [][NextClone]_vars

\* What is read through an instance: its own fields, and the clients of the
\* manager its conn_manager points to.
Own(v) ==
    [registers |-> v.registers, program |-> v.program, heap |-> v.heap,
     events |-> v.events, pc |-> v.pc, equal_flag |-> v.equal_flag]
Clients(v) == probe.managers[v.conn_manager]

\* C23: a VM and its clone share no mutable state: a mutation made through
\* one (registers, program, heap, events, connection manager) is not seen
\* through the other.
C23_NothingShared ==
    [][/\ (Spawned /\ ThroughRepl)
            => /\ Own(vm)' = Own(vm)
               /\ Clients(vm)' = Clients(vm)
       /\ ThroughClone
            => /\ Own(probe.repl)' = Own(probe.repl)
               /\ Clients(probe.repl)' = Clients(probe.repl)]_vars

\* C23, amended: registers, program, heap and events are the instance's
\* own, and a mutation of them through one instance is not seen through the
\* other; the connection manager of a clone is the manager of the original,
\* so both read the same clients.
C23_OnlyManagerShared ==
    /\ [](Spawned => /\ vm.conn_manager = probe.repl.conn_manager
                     /\ Clients(vm) = Clients(probe.repl))
    /\ [][/\ (Spawned /\ ThroughRepl) => Own(vm)' = Own(vm)
          /\ ThroughClone => Own(probe.repl)' = Own(probe.repl)]_vars

\* The clone has run and grown its heap, the REPL's VM has not, and the
\* client the REPL added after the spawn is read through the clone.
C23_Witness ==
    /\ Spawned
    /\ vpc.state = "stopped"
    /\ vm.heap # << >> /\ probe.repl.heap = << >>
    /\ Clients(vm) = { "node-a" }

\* C24: JMPE r with the flag set makes the pc registers[r]; with the flag
\* clear it leaves the pc one past the JMPE byte, so that the operand byte
\* is the next opcode fetched; registers and flag are as they were.
C24_JmpeTakenOrOneByte ==
    [][/\ (About("JMPE", 1) /\ vm.equal_flag)
            => /\ vpc'.state = "running"
               /\ vm'.pc = vm.registers[B(vm, 1)]
               /\ vm'.registers = vm.registers
               /\ vm'.equal_flag
       /\ (About("JMPE", 0) /\ ~vm.equal_flag)
            => /\ vpc'.state = "running"
               /\ vm'.pc = vm.pc + 1
               /\ vm'.registers = vm.registers
               /\ ~vm'.equal_flag]_vars

\* test_jeq_opcode: the flag set, registers[0] = 7, and the JMPE has made
\* the pc 7.
C24_Witness ==
    /\ probe.fn = "exec"
    /\ Len(vm.program) = 72
    /\ Slice(vm.program, 64, 72) = << ByteOf("EQ"), 2, 2, 0, ByteOf("JMPE"), 0, 1, 2 >>
    /\ vpc.state = "running"
    /\ vm.equal_flag /\ vm.registers[0] = 7 /\ vm.pc = 7

-----------------------------------------------------------------------------
(* PRTS on a read-only buffer that holds strings: test_prts_opcode appends *)
(* to ro_data (a private field, written by nothing else in the crate).     *)

RoDatas ==
    { Hello \o << 0 >>, Hi \o << 0, 72, 0 >>, << 0, 72, 105, 0 >>, << 0 >>,
      << 72, 0, 0, 105, 0 >>, << 72, 105 >> }

InitPrts ==
    /\ src = << >>
    /\ asm = AssemblerNew
    /\ apc = Stage("start", 0, << >>)
    /\ result = None
    /\ \E id \in Uuids, ro \in RoDatas, k \in 0..6 :
          vm = [add_bytes(TestVm(id, 5, 10),
                          prepend_header(<< ByteOf("PRTS"), 0, k, 0, 5 >>))
                   EXCEPT !.ro_data = ro]
    /\ vpc = VState("loaded", "")
    /\ probe = [fn |-> "prts"]

SpecPrts == InitPrts /\ [][NextExec]_vars

\* The indexes of the zero bytes of ro at or after k.
ZerosFrom(ro, k) == { z \in k..(Len(ro) - 1) : At(ro, z) = 0 }

\* C25: PRTS with operand k prints the bytes ro_data[k .. z), z being the
\* first index at or after k that holds a zero, whenever there is one;
\* registers, flag and heap are as they were.
C25_PrtsPrintsUpToZero ==
    [][LET k == B16(vm, 1)
           zeros == ZerosFrom(vm.ro_data, k)
           z == CHOOSE z \in zeros : \A y \in zeros : z <= y
       IN  (About("PRTS", 0) /\ Avail(vm) >= 2 /\ zeros # {})
              => /\ vpc'.state = "running"
                 /\ vm'.stdout = Append(vm.stdout, Prts(Slice(vm.ro_data, k, z)))
                 /\ vm'.registers = vm.registers
                 /\ vm'.equal_flag = vm.equal_flag
                 /\ vm'.heap = vm.heap]_vars

-----------------------------------------------------------------------------
(* Assemble, load and run: the read-only section in the VM.                *)

\* C26: once run has verified the header of the loaded image, ro_data is
\* the read-only section of the image: the ro_len bytes that follow the
\* 64-byte header.
C26_RoDataMirrorsImage ==
    (probe = NoProbe /\ vpc.state \in { "running", "stopped" })
        => LET ro_len == get_starting_offset(vm)
           IN  /\ Len(vm.program) >= PIE_HEADER_LENGTH + ro_len
               /\ vm.ro_data = Slice(vm.program, PIE_HEADER_LENGTH,
                                     PIE_HEADER_LENGTH + ro_len)

-----------------------------------------------------------------------------
(* run on any image: the opcodes without an arm.                           *)

\* IGL, and the opcodes execute_instruction has no arm for.
Unimplemented ==
    { "IGL", "DJMPE", "AND", "OR", "XOR", "NOT", "LUI", "CLOOP", "LOOP",
      "LOADM", "SETM", "PUSH", "POP", "CALL", "RET" }

\* C27: when the byte fetched decodes to IGL or to an opcode without an arm,
\* run stops at once: the pc is one past the byte, and registers, float
\* registers, heap, flag and remainder are as they were, and stay so while
\* the VM is stopped.
C27_UnimplementedStopsRun ==
    [][/\ (vpc.state = "running" /\ ~PcOutside(vm) /\ decode_opcode(vm) \in Unimplemented)
            => /\ vpc'.state = "stopped"
               /\ vm'.pc = vm.pc + 1
       /\ (vpc.state = "stopped"
             \/ (vpc.state = "running" /\ ~PcOutside(vm)
                   /\ decode_opcode(vm) \in Unimplemented))
            => /\ vm'.registers = vm.registers
               /\ vm'.float_registers = vm.float_registers
               /\ vm'.heap = vm.heap
               /\ vm'.equal_flag = vm.equal_flag
               /\ vm'.remainder = vm.remainder]_vars

\* An image whose first instruction has no arm: the run has stopped one
\* byte past it, after eq $0 $0 and load $1 #7 in another.
C27_Witness ==
    /\ probe.fn = "run"
    /\ vpc.state = "stopped"
    /\ Len(vm.program) = 76
    /\ OpcodeFromU8(At(vm.program, 72)) \in Unimplemented
    /\ vm.pc = 73
    /\ vm.equal_flag /\ vm.registers[1] = 7

-----------------------------------------------------------------------------
(* Single instructions on chosen register values: jumps, DIV, overflow.    *)

\* Registers, flag and heap are as they were.
SameState ==
    /\ vm'.registers = vm.registers
    /\ vm'.equal_flag = vm.equal_flag
    /\ vm'.heap = vm.heap

\* C28: with the opcode at p, JMP r makes the pc registers[r], JMPF r makes
\* it p + 2 + registers[r] and JMPB r makes it p + 2 - registers[r]; no
\* register, flag or heap changes, and the pc is a non-negative index
\* whatever the register holds.
C28_JumpTargets ==
    [][LET p == vm.pc
           r == vm.registers[B(vm, 1)]
       IN  /\ About("JMP", 1)
                => /\ vpc'.state = "running" /\ SameState
                   /\ vm'.pc = r /\ vm'.pc >= 0
           /\ (About("JMPF", 1) /\ InI32("ADD", p + 2, r))
                => /\ vpc'.state = "running" /\ SameState
                   /\ vm'.pc = p + 2 + r /\ vm'.pc >= 0
           /\ (About("JMPB", 1) /\ InI32("SUB", p + 2, r))
                => /\ vpc'.state = "running" /\ SameState
                   /\ vm'.pc = p + 2 - r /\ vm'.pc >= 0]_vars

\* C29: DIV with operand bytes (a, b, d) and registers[b] # 0 stores the
\* quotient in registers[d] and the remainder in the 32-bit remainder word,
\* and quotient * registers[b] + remainder = registers[a], negative
\* dividends included.
C29_DivQuotientAndRemainder ==
    [][LET x == vm.registers[B(vm, 1)]
           y == vm.registers[B(vm, 2)]
           q == vm'.registers[B(vm, 3)]
           rem == vm'.remainder
       IN  (About("DIV", 3) /\ y # 0)
              => /\ vpc'.state = "running"
                 /\ rem.hi < U16 \div 2
                 /\ rem.hi * U16 + rem.lo = x - q * y]_vars

\* C30: when the result of ADD, SUB, MUL, INC or DEC is not an i32, the
\* destination register receives the result modulo 2^32 as a two's
\* complement value, and the loop goes on with the next instruction.
C30_ArithmeticWraps ==
    [][LET x == vm.registers[B(vm, 1)]
           y == vm.registers[B(vm, 2)]
       IN  /\ \A op \in ArithOps :
                (About(op, 3) /\ ~InI32(op, x, y))
                   => /\ vpc'.state = "running"
                      /\ vm'.registers[B(vm, 3)] = IntOp(op, x, y).val
                      /\ vm'.pc = vm.pc + 4
           /\ (About("INC", 3) /\ x = MaxI32)
                => /\ vpc'.state = "running"
                   /\ vm'.registers[B(vm, 1)] = MinI32
                   /\ vm'.pc = vm.pc + 4
           /\ (About("DEC", 3) /\ x = MinI32)
                => /\ vpc'.state = "running"
                   /\ vm'.registers[B(vm, 1)] = MaxI32
                   /\ vm'.pc = vm.pc + 4]_vars

-----------------------------------------------------------------------------
(* SHL and SHR on chosen register values and shift amounts.                *)

ShiftAmounts == { 0, 1, 2, 15, 16, 17, 30, 31, 32, 33, 48, 64, 255 }

InitShift ==
    /\ src = << >>
    /\ asm = AssemblerNew
    /\ apc = Stage("start", 0, << >>)
    /\ result = None
    /\ \E id \in Uuids, x \in RegisterValues, op \in { "SHL", "SHR" },
          r \in { 0, 1 }, n \in ShiftAmounts, p \in FlagPrefixes :
          vm = add_bytes(TestVm(id, x, x),
                         prepend_header(p \o << ByteOf(op), r, n, 0 >>))
    /\ vpc = VState("loaded", "")
    /\ probe = [fn |-> "shift"]

SpecShift == InitShift /\ [][NextExec]_vars

\* 2^j, for j in 0..30
RECURSIVE Pow2(_)
Pow2(j) == IF j = 0 THEN 1 ELSE 2 * Pow2(j - 1)

\* The low j bits of the i32 x, for j in 1..31.
LowBits(x, j) ==
    IF j = 31 THEN (IF x < 0 THEN x - MinI32 ELSE x) ELSE x % Pow2(j)

\* y is x shifted left by k bits (k in 0..31): the low k bits of y are zero
\* and the other 32 - k are the low bits of x.
IsShiftedLeft(y, x, k) ==
    IF k = 0 THEN y = x
    ELSE IF k = 31 THEN y = (IF x % 2 = 1 THEN MinI32 ELSE 0)
    ELSE /\ y % Pow2(k) = 0
         /\ LowBits(y \div Pow2(k), 32 - k) = LowBits(x, 32 - k)

\* y is x shifted right by k bits (k in 0..31), the sign kept.
IsShiftedRight(y, x, k) ==
    IF k = 31 THEN y = (IF x < 0 THEN -1 ELSE 0)
    ELSE /\ y * Pow2(k) <= x
         /\ x - y * Pow2(k) < Pow2(k)

\* C31: SHL r n and SHR r n shift registers[r] in place by n bits, by 16
\* when n is 0, the amount taken modulo 32; they never trap, read the third
\* operand byte, and leave the other registers and the flag as they were.
C31_ShiftsInPlace ==
    [][\A op \in { "SHL", "SHR" } :
          LET r == B(vm, 1)
              n == B(vm, 2)
              k == (IF n = 0 THEN 16 ELSE n) % 32
              x == vm.registers[r]
              y == vm'.registers[r]
          IN  (About(op, 1) /\ Avail(vm) >= 3)
                 => /\ vpc'.state = "running"
                    /\ IF op = "SHL" THEN IsShiftedLeft(y, x, k)
                       ELSE IsShiftedRight(y, x, k)
                    /\ vm'.pc = vm.pc + 4
                    /\ \A q \in Registers \ { r } : vm'.registers[q] = vm.registers[q]
                    /\ vm'.equal_flag = vm.equal_flag]_vars

\* shl $0 #33 on registers[0] = 5 has left 10; the flag set before it is
\* still set.
C31_Witness ==
    /\ probe.fn = "shift"
    /\ Len(vm.program) = 72
    /\ Slice(vm.program, 68, 72) = << ByteOf("SHL"), 0, 33, 0 >>
    /\ vm.pc = 72
    /\ vm.registers[0] = 10 /\ vm.registers[1] = 5
    /\ vm.equal_flag

-----------------------------------------------------------------------------
(* ALOC on chosen register values, after other ALOCs and after SUB and DEC *)
(* have written the registers.                                             *)

HeapValues == { -3, -1, 0, 1, 2, 3 }

\* aloc $0, aloc $1; three ALOCs; aloc $0, dec $1, aloc $1; aloc $1,
\* sub $0 $1 $0, aloc $0
HeapPrograms ==
    { << ByteOf("ALOC"), 0, ByteOf("ALOC"), 1 >>,
      << ByteOf("ALOC"), 0, ByteOf("ALOC"), 1, ByteOf("ALOC"), 0 >>,
      << ByteOf("ALOC"), 0, ByteOf("DEC"), 1, 0, 0, ByteOf("ALOC"), 1 >>,
      << ByteOf("ALOC"), 1, ByteOf("SUB"), 0, 1, 0, ByteOf("ALOC"), 0 >> }

InitHeap ==
    /\ src = << >>
    /\ asm = AssemblerNew
    /\ apc = Stage("start", 0, << >>)
    /\ result = None
    /\ \E id \in Uuids, x \in HeapValues, y \in HeapValues, code \in HeapPrograms :
          vm = add_bytes(TestVm(id, x, y), prepend_header(code))
    /\ vpc = VState("loaded", "")
    /\ probe = [fn |-> "heap"]

SpecHeap == InitHeap /\ [][NextExec]_vars

C38_HeapGrowOnly ==
    [][IsPrefix(vm.heap, vm'.heap)]_vars

-----------------------------------------------------------------------------
(* One Assembler, several sources: the REPL keeps a single Assembler and   *)
(* load_file and spawn call assemble on it every time.                     *)

MaxAssemblies == 2

AgainSources ==
    { << DataHeader, CodeHeader, Hlt >>, ScenarioComplete, ScenarioPrts,
      << DataHeader, HelloHi, CodeHeader, TestInc, Hlt >>, ScenarioNoSections }

InitAgain ==
    /\ src \in AgainSources
    /\ asm = AssemblerNew
    /\ apc = Stage("start", 0, << >>)
    /\ result = None
    /\ \E id \in Uuids : vm = VMNew(id)
    /\ vpc = VState("idle", "")
    /\ probe = [fn |-> "again", calls |-> 1, first_ok |-> FALSE]

\* load_file once more: assemble on the Assembler the call before left.
AssembleAgain ==
    /\ probe.fn = "again"
    /\ apc.stage = "done"
    /\ probe.calls < MaxAssemblies
    /\ src' \in AgainSources
    /\ apc' = Stage("start", 0, << >>)
    /\ result' = None
    /\ probe' = [probe EXCEPT !.calls = @ + 1,
                              !.first_ok = IF probe.calls = 1 THEN Unwrap(result).ok ELSE @]
    /\ UNCHANGED << asm, vm, vpc >>

NextAgain ==
    \/ AssembleBegin
    \/ FirstPhaseStep
    \/ FirstPhaseEnd
    \/ SecondPhaseStep
    \/ AssembleReturn
    \/ AssembleAgain

SpecAgain == InitAgain /\ [][NextAgain]_vars

\* Instruction i is an .asciiz with a string operand.
IsAsciiz(i) ==
    /\ is_directive(i) /\ contain_operands(i)
    /\ get_directive_name(i) = Some("asciiz")
    /\ IsSome(get_string_constant(i))

\* The strings of the .asciiz instructions among the first k of p, each
\* followed by a zero byte, in source order.
RECURSIVE StringsOf(_, _)
StringsOf(p, k) ==
    IF k = 0 THEN << >>
    ELSE StringsOf(p, k - 1)
            \o (IF IsAsciiz(p[k]) THEN Unwrap(get_string_constant(p[k])) \o << 0 >>
                ELSE << >>)

\* C33: in pass 1 each .asciiz with a string operand appends the bytes of
\* the string and one zero byte to the read-only buffer, in source order,
\* and ro_offset is the length of the buffer in every state; after pass 1
\* the buffer is as long as the strings of the source and their zeros.
C33_AsciizFillsReadOnly ==
    /\ asm.ro_offset = Len(asm.ro)
    /\ apc.stage = "first" => asm.ro = StringsOf(src, apc.idx)
    /\ (apc.stage = "second" \/ (apc.stage = "done" /\ src # << >>))
          => asm.ro = StringsOf(src, Len(src))

\* C34: pass 2 emits code bytes and advances the instruction index, and
\* nothing else: read-only buffer, ro_offset, symbols, sections, current
\* section and errors stay as pass 1 left them.
C34_PassTwoOnlyEmits ==
    [][SecondPhaseStep
          => /\ asm'.ro = asm.ro
             /\ asm'.ro_offset = asm.ro_offset
             /\ asm'.symbols = asm.symbols
             /\ asm'.sections = asm.sections
             /\ asm'.curr_section = asm.curr_section
             /\ asm'.errors = asm.errors]_vars

\* What assemble returns for p on a new Assembler.
FreshResult(p) ==
    IF p = << >> THEN AssembleErr(<< ParsingError >>)
    ELSE LET a == [FirstPhasePrefix(p, Len(p)) EXCEPT !.phase = "Second"]
         IN  IF a.errors # << >> THEN AssembleErr(a.errors)
             ELSE IF Len(a.sections) # 2
             THEN AssembleErr(Append(a.errors, InsufficientSections))
             ELSE AssembleOk(AssembleImage(a, CodeBytes(a, p, Len(p))))

\* C35: after a successful assemble, a second assemble on the same
\* Assembler with a valid two-section source returns the image a new
\* Assembler returns for that source.
C35_ReassemblyAsFresh ==
    (/\ probe.fn = "again" /\ probe.calls = 2 /\ probe.first_ok
     /\ apc.stage = "done"
     /\ FreshResult(src).ok)
        => result = Some(FreshResult(src))

\* The first assemble on a new Assembler returns FreshResult.
FirstCallAsFresh ==
    (probe.fn = "again" /\ probe.calls = 1 /\ apc.stage = "done")
        => result = Some(FreshResult(src))

-----------------------------------------------------------------------------
(* Assemble, load and run: what the interpreter indexes.                   *)

\* C36: while the image of a successful assemble runs, every register index
\* the VM uses is in 0..31: no step indexes the register file out of range.
C36_RegisterIndexInRange ==
    [][RunStep => vpc'.panic # "register index"]_vars

\* C37: while the image of a successful assemble runs, every byte the VM
\* reads from the program is at an index below the program length: no step
\* reads past the end of the image.
C37_ProgramReadsInRange ==
    [][RunStep => vpc'.panic # "program index"]_vars

-----------------------------------------------------------------------------
(* run on any image: progress.  The loop of run is the only thing the      *)
(* thread that called it does, so a step that can be taken is taken.       *)

\* One instruction for every opcode byte, alone or after eq $0 $0, with
\* registers[0] = 2 and registers[1] = 7.
ProgressImages ==
    { prepend_header(p \o << op, a, 1, 0 >>) :
         p \in { << >>, << 9, 0, 0, 0 >> }, op \in 0..Len(OpcodeList), a \in { 0, 1 } }

InitProgress ==
    /\ src = << >>
    /\ asm = AssemblerNew
    /\ apc = Stage("start", 0, << >>)
    /\ result = None
    /\ \E image \in ProgressImages : vm = add_bytes(TestVm("uuid-1", 2, 7), image)
    /\ vpc = VState("loaded", "")
    /\ probe = [fn |-> "progress"]

SpecProgress == InitProgress /\ [][NextExec]_vars /\ WF_vars(RunStep)

\* No byte of the program decodes to JMP, JMPF, JMPB or JMPE.
JumpFree(program) ==
    \A k \in 1..Len(program) :
        OpcodeFromU8(program[k]) \notin { "JMP", "JMPF", "JMPB", "JMPE" }

\* C39: every instruction the loop executes, other than JMP, JMPF, JMPB and
\* a JMPE that jumps, moves the pc forward by 1 to 4 bytes, and the loop
\* ends when the pc is not below the program length; so run on an image
\* without jumps takes at most (program length - starting pc) steps and
\* stops.
C39_JumpFreeProgress ==
    /\ [][(vpc.state = "running" /\ ~PcOutside(vm) /\ ~OverwritesPc(vm))
             => /\ vm'.pc - vm.pc \in 1..4
                /\ vm'.program = vm.program]_vars
    /\ [][(vpc.state = "running" /\ PcOutside(vm)) => vpc'.state = "stopped"]_vars
    /\ (vpc.state = "running" /\ JumpFree(vm.program)) ~> (vpc.state # "running")

\* An image without jumps (eq $0 $0 and one more instruction) has run to
\* the end of its 72 bytes and stopped.
C39_Witness ==
    /\ probe.fn = "progress"
    /\ vpc.state = "stopped"
    /\ Len(vm.program) = 72 /\ JumpFree(vm.program)
    /\ vm.equal_flag
    /\ vm.pc = 72

-----------------------------------------------------------------------------
(* The connection manager behind its Arc<RwLock<Manager>>: the REPL thread *)
(* and a server thread call add_client, del_client and get_client_names,   *)
(* each call under the lock its receiver needs (&mut self: write, &self:   *)
(* read).  A call is three steps: contains_key, the insert or remove, and  *)
(* the return that drops the guard.  The clients are the keys of the       *)
(* HashMap.                                                                *)

MaxCalls == 3

Threads == { "repl", "server" }
ManagerOps == { "add_client", "del_client", "get_client_names" }

\* A lock that admits every thread.
NoLock(lock, t, op) == TRUE

\* RwLock: write() waits for the writer and the readers to leave, read()
\* for the writer.
LockFree(lock, t, op) ==
    IF op = "get_client_names" THEN lock.writer = None
    ELSE lock.writer = None /\ lock.readers = {}

Idle == [pc |-> "idle", op |-> "none", alias |-> "", present |-> FALSE,
         ret |-> None, names |-> << >>]

InitManager ==
    /\ src = << >>
    /\ asm = AssemblerNew
    /\ apc = Stage("start", 0, << >>)
    /\ result = None
    /\ \E id \in Uuids : vm = VMNew(id)
    /\ vpc = VState("idle", "")
    /\ probe = [fn |-> "manager", clients |-> {}, calls |-> 0,
                lock |-> [writer |-> None, readers |-> {}],
                threads |-> [t \in Threads |-> Idle]]

\* A thread calls conn_manager.write() or .read() for a call of the manager.
ManagerCall ==
    /\ probe.fn = "manager"
    /\ probe.calls < MaxCalls
    /\ \E t \in Threads, op \in ManagerOps, a \in Aliases :
          /\ probe.threads[t].pc = "idle"
          /\ probe' = [probe EXCEPT !.calls = @ + 1,
                                    !.threads[t] = [Idle EXCEPT !.pc = "waiting", !.op = op,
                                                                !.alias = a]]
    /\ UNCHANGED << src, asm, apc, result, vm, vpc >>

\* The guard is handed out.
ManagerLock ==
    /\ probe.fn = "manager"
    /\ \E t \in Threads :
          /\ probe.threads[t].pc = "waiting"
          /\ LockFree(probe.lock, t, probe.threads[t].op)
          /\ probe' = [probe EXCEPT
                         !.threads[t].pc = "locked",
                         !.lock = IF probe.threads[t].op = "get_client_names"
                                  THEN [@ EXCEPT !.readers = @ \cup { t }]
                                  ELSE [@ EXCEPT !.writer = Some(t)]]
    /\ UNCHANGED << src, asm, apc, result, vm, vpc >>

\* contains_key(&alias); get_client_names collects the keys, in any order.
ManagerCheck ==
    /\ probe.fn = "manager"
    /\ \E t \in Threads :
          /\ probe.threads[t].pc = "locked"
          /\ IF probe.threads[t].op = "get_client_names"
             THEN \E names \in [1..Cardinality(probe.clients) -> probe.clients] :
                     /\ \A j, k \in DOMAIN names : names[j] = names[k] => j = k
                     /\ probe' = [probe EXCEPT !.threads[t].pc = "returned",
                                               !.threads[t].names = names]
             ELSE probe' = [probe EXCEPT
                              !.threads[t].pc = "checked",
                              !.threads[t].present = probe.threads[t].alias \in probe.clients]
    /\ UNCHANGED << src, asm, apc, result, vm, vpc >>

\* The arm taken after contains_key: return false, or insert / remove and
\* return true.
ManagerApply ==
    /\ probe.fn = "manager"
    /\ \E t \in Threads :
          LET c == probe.threads[t]
              refused == IF c.op = "add_client" THEN c.present ELSE ~c.present
          IN  /\ c.pc = "checked"
              /\ probe' = [probe EXCEPT
                             !.threads[t].pc = "returned",
                             !.threads[t].ret = Some(~refused),
                             !.clients = IF refused THEN @
                                         ELSE IF c.op = "add_client" THEN @ \cup { c.alias }
                                         ELSE @ \ { c.alias }]
    /\ UNCHANGED << src, asm, apc, result, vm, vpc >>

\* The guard is dropped at the end of the caller's block.
ManagerUnlock ==
    /\ probe.fn = "manager"
    /\ \E t \in Threads :
          /\ probe.threads[t].pc = "returned"
          /\ probe' = [probe EXCEPT
                         !.threads[t].pc = "idle",
                         !.lock = [writer |-> IF @.writer = Some(t) THEN None ELSE @.writer,
                                   readers |-> @.readers \ { t }]]
    /\ UNCHANGED << src, asm, apc, result, vm, vpc >>

NextManager ==
    \/ ManagerCall
    \/ ManagerLock
    \/ ManagerCheck
    \/ ManagerApply
    \/ ManagerUnlock

SpecManager == InitManager /\ [][NextManager]_vars

\* Thread t returns from add_client or del_client in this step.
Returns(t) ==
    /\ probe.threads[t].pc = "checked"
    /\ probe'.threads[t].pc = "returned"

\* C40: under any interleaving of the threads, add_client(a) returns true
\* exactly when a was absent, and a is then present; del_client(a) returns
\* true exactly when a was present, and a is then absent; a call that
\* returns false leaves the clients as they were; get_client_names lists
\* every client once.
C40_ManagerCallsAtomic ==
    /\ [][\A t \in Threads :
             LET a == probe.threads[t].alias
                 ret == Unwrap(probe'.threads[t].ret)
             IN  Returns(t)
                    => /\ probe.threads[t].op = "add_client"
                            => /\ ret = (a \notin probe.clients)
                               /\ probe'.clients = add_client(probe.clients, a)
                               /\ ret => a \in probe'.clients
                       /\ probe.threads[t].op = "del_client"
                            => /\ ret = (a \in probe.clients)
                               /\ probe'.clients = del_client(probe.clients, a)
                               /\ ret => a \notin probe'.clients
                       /\ ~ret => probe'.clients = probe.clients]_vars
    /\ [](probe.fn = "manager"
            => \A t \in Threads :
                  LET names == probe.threads[t].names
                  IN  \A j, k \in DOMAIN names : names[j] = names[k] => j = k)

\* Both threads called add_client("node-a"): the REPL's call returned true,
\* the server's false, and the alias is a client.
C40_Witness ==
    /\ probe.fn = "manager"
    /\ probe.clients = { "node-a" }
    /\ probe.threads["repl"].op = "add_client" /\ probe.threads["repl"].alias = "node-a"
    /\ probe.threads["repl"].ret = Some(TRUE)
    /\ probe.threads["server"].op = "add_client" /\ probe.threads["server"].alias = "node-a"
    /\ probe.threads["server"].ret = Some(FALSE)

====
